---------------------------- MODULE Spec2Model ----------------------------
(***************************************************************************)
(* A model of the hpc primitives library: the SPSC ring buffer             *)
(* (include/hpc/core/ring_buffer.hpp), the MPMC ring buffer                *)
(* (include/hpc/core/mpmc_ring_buffer.hpp), the TTAS spinlock              *)
(* (include/hpc/core/ttas_spinlock.hpp), the bump arena                    *)
(* (src/arena_allocator.cpp) with its NUMA wrapper (src/numa_arena.cpp),   *)
(* the fixed-size pool (src/pool_allocator.cpp, numa_pool.hpp) and the     *)
(* shared-memory ring (include/hpc/ipc/shm_ring_buffer.hpp).               *)
(*                                                                         *)
(* Atomic loads, stores and compare-exchanges are single steps; the        *)
(* acquire/release pairs of the code are modelled by a sequentially        *)
(* consistent memory.  Each specification drives one component and leaves  *)
(* the variables of the others at their constructed values.                *)
(***************************************************************************)
EXTENDS Integers, Sequences, FiniteSets

(***************************************************************************)
(* Bounds of the model.                                                    *)
(***************************************************************************)
\* Modelled width of std::size_t in bits (the program's is 64); unsigned
\* arithmetic wraps modulo 2^SizeBits.
SizeBits == 20
\* Largest capacity requested from the spsc_ring_buffer constructor.
SpscMaxRequested == 3
\* Number of try_push calls that may succeed in one run of the SPSC queue;
\* the pushed values are 1, 2, 3, ... in push order.
SpscMaxPush == 6
\* Largest capacity requested from the mpmc_ring_buffer constructor.
MpmcMaxRequested == 3
\* Number of try_push calls that may succeed in one sequential run.
SeqMaxPush == 7
\* Number of try_push calls made in one concurrent run of the MPMC queue;
\* call number k pushes the value k.
MpmcMaxCalls == 3
\* Largest capacity requested from the constructor in a concurrent run.
MpmcThreadedMaxRequested == 2
\* Increments of the shared counter each spinlock thread makes.
LockIters == 1
\* try_lock calls made in one run of the spinlock.
LockMaxTries == 1
\* Largest capacity_bytes given to an arena constructor.
ArenaMaxCapacity == 12
\* allocate calls made in one run of the arenas.
ArenaMaxAllocs == 3
\* reset calls, and move constructions and assignments, in one run.
ArenaMaxResets == 1
ArenaMaxMoves == 1
\* Largest element_count given to a fixed_pool or numa_pool constructor.
PoolMaxCount == 3
\* allocate and deallocate calls made in one run of the pool.
PoolMaxCalls == 6
\* Largest in-range capacity requested when the constructors are exercised.
CtorMaxRequested == 9
\* Largest count given to try_push_batch and try_pop_batch.
BatchMaxCount == 3
\* Largest capacity of a shared-memory ring.
ShmMaxCapacity == 3
\* try_push calls made in one run of the shared-memory ring; call number k
\* pushes the value k.
ShmMaxPush == 3

\* ttas_spinlock::max_backoff_, 1u << 16.
max_backoff_ == 65536

IndexMod == 2 ^ SizeBits

\* Unsigned wrap-around of std::size_t arithmetic.
Wrap(x) == x % IndexMod

\* The value of an unsigned word read as intptr_t (two's complement).
Signed(x) == IF x >= IndexMod \div 2 THEN x - IndexMod ELSE x

RECURSIVE BitAnd(_, _)
BitAnd(a, b) ==
    IF a = 0 \/ b = 0 THEN 0
    ELSE (a % 2) * (b % 2) + 2 * BitAnd(a \div 2, b \div 2)

RECURSIVE BitOr(_, _)
BitOr(a, b) ==
    IF a = 0 THEN b
    ELSE IF b = 0 THEN a
    ELSE (IF a % 2 = 1 \/ b % 2 = 1 THEN 1 ELSE 0) + 2 * BitOr(a \div 2, b \div 2)

RECURSIVE ShiftRight(_, _)
ShiftRight(n, i) == IF i = 0 \/ n = 0 THEN n ELSE ShiftRight(n \div 2, i - 1)

\* The loop "for (i = 1; i < sizeof(size_t) * 8; i <<= 1) n |= n >> i".
RECURSIVE SmearBits(_, _)
SmearBits(n, i) ==
    IF i < SizeBits THEN SmearBits(BitOr(n, ShiftRight(n, i)), 2 * i) ELSE n

\* round_up_to_power_of_two of both ring buffers.
round_up_to_power_of_two(n) ==
    IF n < 2 THEN 2 ELSE Wrap(SmearBits(Wrap(n - 1), 1) + 1)

\* A slot that holds no constructed element.
NoValue == 0

(***************************************************************************)
(* State.                                                                  *)
(***************************************************************************)
VARIABLES
    \* spsc_ring_buffer
    storage_capacity_,  \* underlying ring size
    spsc_mask_,         \* storage_capacity_ - 1
    spsc_head_,         \* consumer-owned index
    spsc_tail_,         \* producer-owned index
    storage_,           \* slot -> element, NoValue when none is constructed
    \* the producer thread inside try_push
    p_pc, p_tail, p_head, p_value,
    \* the consumer thread inside try_pop, and its out argument
    c_pc, c_head, c_tail, c_out,
    \* history: values of the successful pushes and pops, in completion order
    spsc_pushed, spsc_popped,
    \* mpmc_ring_buffer
    mpmc_capacity_,     \* usable capacity (power of two)
    mpmc_mask_,         \* mpmc_capacity_ - 1
    mpmc_head_,         \* consumer index
    mpmc_tail_,         \* producer index
    cells_,             \* slot -> [sequence, storage]
    \* the threads inside try_emplace and try_pop: position, the local
    \* tail or head, the value pushed or moved out
    m_pc, m_idx, m_val,
    \* history: try_push calls started, the value of the producer that won
    \* each tail index, the pairs <<head index, value moved out by the
    \* consumer that won it>>, the values whose try_push returned true, and
    \* how often each value (NoValue too) was returned by a try_pop
    m_calls, m_claimed, m_taken, m_pushed, m_popcount,
    \* the sequential caller: the queue it drives, a reference FIFO of the
    \* elements pushed and not yet popped, its last two completed try_push or
    \* try_pop calls, its last query, the successful pushes since the queue
    \* was last empty (-1 once a pop left it non-empty), whether it has
    \* called try_pop, and the number of its successful pushes
    seq_sut, seq_ref, seq_last, seq_prev, seq_obs, seq_run, seq_popped, seq_count,
    \* ttas_spinlock
    flag_,
    \* its threads: position, the local backoff of lock(), the counter value
    \* read inside the critical section, completed increments
    l_pc, l_backoff, l_tmp, l_done,
    \* the counter the lock protects
    counter,
    \* the number of try_lock calls made, and the last one's thread and result
    l_tries, l_last,
    \* the arena objects: object -> [state, begin_, end_, ptr_,
    \* capacity_bytes_, owns_memory_], pointers as addresses
    arenas,
    \* numa_arena::node_ of the objects built as a numa_arena, and the
    \* platform and argument its constructor ran with
    node_, numa_env,
    \* the heap: buffers handed out by operator new so far, and how often
    \* operator delete was called on each address
    heap_count, heap_deleted,
    \* history: per object the non-null results of allocate since its buffer
    \* was last reset, the last call made on an arena, and the numbers of
    \* allocate, reset and move calls made
    arena_hist, arena_last, arena_allocs, arena_resets, arena_moves,
    \* the pool: whether it was built as a fixed_pool or inside a numa_pool
    \* (whose numa_arena is the arena object "a"), the members of
    \* fixed_pool, and the first word of every block (node::next)
    pool_kind, element_size_, element_count_, pool_storage_, free_list_, pool_mem,
    \* history: the blocks handed out and not yet given back, the last two
    \* allocate or deallocate calls, the allocate calls made since
    \* construction (-1 once a block was given back), and the calls made
    pool_outstanding, pool_last, pool_prev, pool_run, pool_calls,
    \* shared memory: the regions created so far (size in slots, header,
    \* slots), the region the name is linked to (0 when none), the
    \* capacity every process configures, and per process its
    \* shm_spsc_ring_buffer (state, mapped region, owner_)
    shm_regions, shm_name, shm_capacity, shm_procs,
    \* history: the last call made on a ring, the try_push calls made, and
    \* the values pushed and not yet popped since the header was last
    \* written, now and before the last call
    shm_last, shm_count, shm_ref, shm_ref_prev,
    \* the capacity argument each queue's constructor was last called with
    \* when the constructors are exercised
    ctor_capacity,
    \* the last batch call: its count, its result, the src array, the dst
    \* array on return, and the reference FIFO when it was made
    batch_last,
    \* the last call of the SPSC slot interface: the slot it returned or,
    \* for a write, commit or release, the slot acquired before, the value
    \* written, and the queue when the slot was acquired
    slot_last,
    \* a thread inside mpmc_ring_buffer::approximate_size(): its position,
    \* the head it loaded and the value it returned
    size_obs

spscVars == <<storage_capacity_, spsc_mask_, spsc_head_, spsc_tail_, storage_,
              p_pc, p_tail, p_head, p_value, c_pc, c_head, c_tail, c_out,
              spsc_pushed, spsc_popped>>

mpmcVars == <<mpmc_capacity_, mpmc_mask_, mpmc_head_, mpmc_tail_, cells_>>

mpmcThreadVars == <<m_pc, m_idx, m_val,
                    m_calls, m_claimed, m_taken, m_pushed, m_popcount>>

seqVars == <<seq_sut, seq_ref, seq_last, seq_prev, seq_obs, seq_run, seq_popped,
             seq_count>>

lockVars == <<flag_, l_pc, l_backoff, l_tmp, l_done, counter, l_tries, l_last>>

arenaVars == <<arenas, node_, numa_env, heap_count, heap_deleted,
               arena_hist, arena_last, arena_allocs, arena_resets, arena_moves>>

poolVars == <<pool_kind, element_size_, element_count_, pool_storage_, free_list_,
              pool_mem, pool_outstanding, pool_last, pool_prev, pool_run, pool_calls>>

shmVars == <<shm_regions, shm_name, shm_capacity, shm_procs, shm_last, shm_count,
             shm_ref, shm_ref_prev>>

\* The allocators and the shared-memory ring.
ctorVars == <<ctor_capacity>>

batchVars == <<batch_last>>

slotVars == <<slot_last>>

observerVars == <<size_obs>>

memVars == <<arenaVars, poolVars, shmVars, ctorVars, batchVars, slotVars, observerVars>>

vars == <<spscVars, mpmcVars, mpmcThreadVars, seqVars, lockVars, memVars>>

\* What the steps of the SPSC threads leave alone.
notSpsc == <<mpmcVars, mpmcThreadVars, seqVars, lockVars, memVars>>

\* What the steps of the MPMC threads leave alone.
notMpmc == <<spscVars, seqVars, lockVars, memVars>>

\* What the calls on the allocators and the shared-memory ring leave alone.
notMem == <<spscVars, mpmcVars, mpmcThreadVars, seqVars, lockVars>>

\* What the calls on the arenas leave alone.
notArena == <<notMem, poolVars, shmVars, ctorVars, batchVars, slotVars, observerVars>>

\* What the calls on the pool leave alone.
notPool == <<notMem, shmVars, ctorVars, batchVars, slotVars, observerVars>>

\* What the calls on the shared-memory rings leave alone.
notShm == <<notMem, arenaVars, poolVars, ctorVars, batchVars, slotVars, observerVars>>

(***************************************************************************)
(* spsc_ring_buffer.                                                       *)
(***************************************************************************)
\* capacity(), line 152.
spsc_capacity == Wrap(storage_capacity_ - 1)

\* next, line 179: (idx + 1) & mask_.
spsc_next(idx) == BitAnd(Wrap(idx + 1), spsc_mask_)

\* A distance with its operands exchanged.
spsc_distance_swapped(tail, head) == BitAnd(Wrap(head - tail), IndexMod - 1)

\* distance, lines 181-184: (tail - head) & index_type(-1).
spsc_distance(tail, head) == BitAnd(Wrap(tail - head), IndexMod - 1)

\* The slot number element_at addresses (the byte offset divided by sizeof(T)).
spsc_element_at(idx) == BitAnd(idx, spsc_mask_)

spsc_empty == spsc_head_ = spsc_tail_

spsc_full == spsc_distance(spsc_tail_, spsc_head_) = spsc_capacity

\* The constructor: indices start at 0 and no slot holds an element.
SpscCtor(capacity) ==
    /\ storage_capacity_ = round_up_to_power_of_two(Wrap(capacity + 1))
    /\ spsc_mask_ = Wrap(storage_capacity_ - 1)
    /\ spsc_head_ = 0
    /\ spsc_tail_ = 0
    /\ storage_ = [i \in 0 .. (storage_capacity_ - 1) |-> NoValue]

SpscThreadsIdle ==
    /\ p_pc = "idle" /\ p_tail = 0 /\ p_head = 0 /\ p_value = NoValue
    /\ c_pc = "idle" /\ c_head = 0 /\ c_tail = 0 /\ c_out = NoValue
    /\ spsc_pushed = <<>> /\ spsc_popped = <<>>

(***************************************************************************)
(* mpmc_ring_buffer: construction and the values its calls compute.        *)
(***************************************************************************)
\* A constructor that starts every cell with sequence 0.
MpmcCtorZeroSequence(capacity) ==
    /\ mpmc_capacity_ = round_up_to_power_of_two(capacity)
    /\ mpmc_mask_ = Wrap(mpmc_capacity_ - 1)
    /\ mpmc_head_ = 0
    /\ mpmc_tail_ = 0
    /\ cells_ = [i \in 0 .. (mpmc_capacity_ - 1) |->
                    [sequence |-> 0, storage |-> NoValue]]

\* The constructor: cell i starts with sequence i and no element.
MpmcCtor(capacity) ==
    /\ mpmc_capacity_ = round_up_to_power_of_two(capacity)
    /\ mpmc_mask_ = Wrap(mpmc_capacity_ - 1)
    /\ mpmc_head_ = 0
    /\ mpmc_tail_ = 0
    /\ cells_ = [i \in 0 .. (mpmc_capacity_ - 1) |->
                    [sequence |-> i, storage |-> NoValue]]

\* The cell "cells_[idx & mask_]".
mpmc_cell(idx) == BitAnd(idx, mpmc_mask_)

\* try_emplace, line 96: seq - tail through intptr_t.
mpmc_push_diff(seq, tail) == Signed(Wrap(seq - tail))

\* A diff taken against head instead of head + 1.
mpmc_pop_diff_against_head(seq, head) == Signed(Wrap(seq - head))

\* try_pop, line 137: seq - (head + 1) through intptr_t.
mpmc_pop_diff(seq, head) == Signed(Wrap(seq - Wrap(head + 1)))

mpmc_empty == mpmc_head_ = mpmc_tail_

mpmc_full == cells_[mpmc_cell(mpmc_tail_)].sequence < mpmc_tail_

mpmc_approximate_size == Wrap(mpmc_tail_ - mpmc_head_)

(***************************************************************************)
(* The sequential caller's record of a completed call, and the states in   *)
(* which a component is constructed and not driven.                        *)
(***************************************************************************)
NoCall == [op |-> "none", ok |-> FALSE, val |-> NoValue, size |-> 0,
           oldest |-> NoValue, run |-> 0, empty |-> FALSE, full |-> FALSE]

NoQuery == [op |-> "none", res |-> 0, size |-> 0]

\* The threads of a concurrent run: two that call try_push and two that
\* call try_pop.
Producers == {"producer1", "producer2"}

Consumers == {"consumer1", "consumer2"}

MpmcThreads == Producers \cup Consumers

MpmcThreadsIdle ==
    /\ m_pc = [t \in MpmcThreads |-> "idle"]
    /\ m_idx = [t \in MpmcThreads |-> 0]
    /\ m_val = [t \in MpmcThreads |-> NoValue]
    /\ m_calls = 0
    /\ m_claimed = [h \in 0 .. (MpmcMaxCalls - 1) |-> NoValue]
    /\ m_taken = {}
    /\ m_pushed = {}
    /\ m_popcount = [v \in 0 .. MpmcMaxCalls |-> 0]

SeqParked ==
    /\ seq_sut = "none" /\ seq_ref = <<>> /\ seq_last = NoCall /\ seq_prev = NoCall
    /\ seq_obs = NoQuery /\ seq_run = 0 /\ seq_popped = FALSE /\ seq_count = 0

\* The threads of a run of the spinlock.
LockThreads == {"thread1", "thread2", "thread3"}

\* ttas_spinlock's constructor leaves flag_ false.
LockCtor ==
    /\ flag_ = FALSE
    /\ l_pc = [t \in LockThreads |-> "idle"]
    /\ l_backoff = [t \in LockThreads |-> 1]
    /\ l_tmp = [t \in LockThreads |-> 0]
    /\ l_done = [t \in LockThreads |-> 0]
    /\ counter = 0
    /\ l_tries = 0
    /\ l_last = [thread |-> "none", ret |-> FALSE]

(***************************************************************************)
(* arena, numa_arena: the objects and the heap before any constructor ran. *)
(***************************************************************************)
\* nullptr.
NullPtr == 0

\* The arena objects of a run.
ArenaObjects == {"a", "b"}

\* The address operator new returns for the k-th buffer it hands out:
\* buffers are aligned for std::max_align_t and do not overlap.
HeapAddress(k) == 64 * k

HeapAddresses == {HeapAddress(k) : k \in 1 .. 2}

\* A buffer the caller hands to arena(void*, std::size_t); it is not aligned.
CallerBuffers == {961}

\* An arena object's storage before its constructor has run.
NoArena ==
    [state |-> "none", begin_ |-> NullPtr, end_ |-> NullPtr, ptr_ |-> NullPtr,
     capacity_bytes_ |-> 0, owns_memory_ |-> FALSE]

\* No numa_arena constructor has run for the object.
NoNuma == [numa |-> FALSE, linux |-> FALSE, available |-> FALSE, preferred_node |-> -1]

NoArenaCall ==
    [op |-> "none", obj |-> "none", src |-> "none", bytes |-> 0, alignment |-> 1,
     ret |-> NullPtr, before |-> NoArena, src_before |-> NoArena]

\* No call has been made on an arena and no buffer was released.
ArenaHarnessInit ==
    /\ heap_deleted = [b \in HeapAddresses \cup CallerBuffers |-> 0]
    /\ arena_hist = [o \in ArenaObjects |-> <<>>]
    /\ arena_last = NoArenaCall
    /\ arena_allocs = 0 /\ arena_resets = 0 /\ arena_moves = 0

ArenaParked ==
    /\ arenas = [o \in ArenaObjects |-> NoArena]
    /\ node_ = [o \in ArenaObjects |-> -1]
    /\ numa_env = [o \in ArenaObjects |-> NoNuma]
    /\ heap_count = 0
    /\ ArenaHarnessInit

(***************************************************************************)
(* fixed_pool, numa_pool: the pool before its constructor ran.             *)
(***************************************************************************)
NoPoolCall == [op |-> "none", arg |-> NullPtr, ret |-> NullPtr, run |-> 0,
               outstanding |-> {}]

\* No call has been made on the pool.
PoolHarnessInit ==
    /\ pool_outstanding = {}
    /\ pool_last = NoPoolCall /\ pool_prev = NoPoolCall
    /\ pool_run = 0 /\ pool_calls = 0

PoolParked ==
    /\ pool_kind = "none"
    /\ element_size_ = 0 /\ element_count_ = 0
    /\ pool_storage_ = NullPtr /\ free_list_ = NullPtr
    /\ pool_mem = <<>>
    /\ PoolHarnessInit

(***************************************************************************)
(* shm_region, shm_spsc_ring_buffer: before any region exists.             *)
(***************************************************************************)
\* The processes that open the region name.
ShmProcesses == {"process1", "process2"}

\* A region that has not been created: regions are numbered in the order
\* shm_open creates them.
NoRegion ==
    [slots |-> 0, header |-> [capacity |-> 0, head |-> 0, tail |-> 0],
     data |-> [i \in 0 .. (ShmMaxCapacity - 1) |-> NoValue]]

\* A process that has not constructed its shm_spsc_ring_buffer.
NoRing == [state |-> "none", region |-> 0, owner_ |-> FALSE]

NoShmCall ==
    [op |-> "none", process |-> "none", create |-> FALSE, ok |-> FALSE,
     val |-> NoValue, before |-> NoRegion]

ShmParked ==
    /\ shm_regions = [r \in 1 .. Cardinality(ShmProcesses) |-> NoRegion]
    /\ shm_name = 0
    /\ shm_capacity = 0
    /\ shm_procs = [q \in ShmProcesses |-> NoRing]
    /\ shm_last = NoShmCall
    /\ shm_count = 0
    /\ shm_ref = <<>>
    /\ shm_ref_prev = <<>>

\* The queues of the other runs are built outside the run.
CtorParked == ctor_capacity = [spsc |-> 0, mpmc |-> 0]

NoBatch == [op |-> "none", count |-> 0, ret |-> 0, src |-> <<>>, dst |-> <<>>,
            ref |-> <<>>]

BatchParked == batch_last = NoBatch

\* The slot a null pointer stands for.
NullSlot == -1

NoSlotCall == [op |-> "none", slot |-> NullSlot, val |-> NoValue,
               before |-> [head |-> 0, tail |-> 0, storage |-> <<>>]]

SlotParked == slot_last = NoSlotCall

NoSizeCall == [pc |-> "idle", head |-> 0, res |-> 0]

ObserverParked == size_obs = NoSizeCall

MemParked ==
    /\ ArenaParked /\ PoolParked /\ ShmParked
    /\ CtorParked /\ BatchParked /\ SlotParked /\ ObserverParked

SpscInit == /\ \E capacity \in 0 .. SpscMaxRequested : SpscCtor(capacity)
            /\ SpscThreadsIdle
            /\ MpmcCtor(0)
            /\ MpmcThreadsIdle
            /\ SeqParked
            /\ LockCtor
            /\ MemParked

\* try_push, line 50: the producer loads its own tail.
PushLoadTail ==
    /\ p_pc = "idle"
    /\ Len(spsc_pushed) < SpscMaxPush
    /\ p_value' = Len(spsc_pushed) + 1
    /\ p_tail' = spsc_tail_
    /\ p_pc' = "load_head"
    /\ UNCHANGED notSpsc
    /\ UNCHANGED <<storage_capacity_, spsc_mask_, spsc_head_, spsc_tail_, storage_,
                   p_head, c_pc, c_head, c_tail, c_out, spsc_pushed, spsc_popped>>

\* try_push, lines 51-54: load the consumer's head and test for full.
PushLoadHead ==
    /\ p_pc = "load_head"
    /\ p_head' = spsc_head_
    /\ p_pc' = IF spsc_distance(p_tail, spsc_head_) = spsc_capacity
               THEN "idle" ELSE "construct"
    /\ UNCHANGED notSpsc
    /\ UNCHANGED <<storage_capacity_, spsc_mask_, spsc_head_, spsc_tail_, storage_,
                   p_tail, p_value, c_pc, c_head, c_tail, c_out,
                   spsc_pushed, spsc_popped>>

\* try_push, lines 55-56: construct the element in the slot.
PushConstruct ==
    /\ p_pc = "construct"
    /\ storage_' = [storage_ EXCEPT ![spsc_element_at(p_tail)] = p_value]
    /\ p_pc' = "store_tail"
    /\ UNCHANGED notSpsc
    /\ UNCHANGED <<storage_capacity_, spsc_mask_, spsc_head_, spsc_tail_,
                   p_tail, p_head, p_value, c_pc, c_head, c_tail, c_out,
                   spsc_pushed, spsc_popped>>

\* try_push, lines 57-58: publish by storing the advanced tail.
PushStoreTail ==
    /\ p_pc = "store_tail"
    /\ spsc_tail_' = spsc_next(p_tail)
    /\ spsc_pushed' = Append(spsc_pushed, p_value)
    /\ p_pc' = "idle"
    /\ UNCHANGED notSpsc
    /\ UNCHANGED <<storage_capacity_, spsc_mask_, spsc_head_, storage_,
                   p_tail, p_head, p_value, c_pc, c_head, c_tail, c_out,
                   spsc_popped>>

\* try_pop, line 76: the consumer loads its own head.
PopLoadHead ==
    /\ c_pc = "idle"
    /\ c_head' = spsc_head_
    /\ c_pc' = "load_tail"
    /\ UNCHANGED notSpsc
    /\ UNCHANGED <<storage_capacity_, spsc_mask_, spsc_head_, spsc_tail_, storage_,
                   p_pc, p_tail, p_head, p_value, c_tail, c_out,
                   spsc_pushed, spsc_popped>>

\* try_pop, lines 77-80: load the producer's tail and test for empty.
PopLoadTail ==
    /\ c_pc = "load_tail"
    /\ c_tail' = spsc_tail_
    /\ c_pc' = IF c_head = spsc_tail_ THEN "idle" ELSE "move"
    /\ UNCHANGED notSpsc
    /\ UNCHANGED <<storage_capacity_, spsc_mask_, spsc_head_, spsc_tail_, storage_,
                   p_pc, p_tail, p_head, p_value, c_head, c_out,
                   spsc_pushed, spsc_popped>>

\* try_pop, lines 81-83: move the element out and destroy it.
PopMove ==
    /\ c_pc = "move"
    /\ c_out' = storage_[spsc_element_at(c_head)]
    /\ storage_' = [storage_ EXCEPT ![spsc_element_at(c_head)] = NoValue]
    /\ c_pc' = "store_head"
    /\ UNCHANGED notSpsc
    /\ UNCHANGED <<storage_capacity_, spsc_mask_, spsc_head_, spsc_tail_,
                   p_pc, p_tail, p_head, p_value, c_head, c_tail,
                   spsc_pushed, spsc_popped>>

\* try_pop, lines 84-85: release the slot by storing the advanced head.
PopStoreHead ==
    /\ c_pc = "store_head"
    /\ spsc_head_' = spsc_next(c_head)
    /\ spsc_popped' = Append(spsc_popped, c_out)
    /\ c_pc' = "idle"
    /\ UNCHANGED notSpsc
    /\ UNCHANGED <<storage_capacity_, spsc_mask_, spsc_tail_, storage_,
                   p_pc, p_tail, p_head, p_value, c_head, c_tail, c_out,
                   spsc_pushed>>

SpscNext ==
    \/ PushLoadTail \/ PushLoadHead \/ PushConstruct \/ PushStoreTail
    \/ PopLoadHead \/ PopLoadTail \/ PopMove \/ PopStoreHead

\* One producer thread and one consumer thread on one spsc_ring_buffer.
SpscSpec == SpscInit /\ [][SpscNext]_vars

(***************************************************************************)
(* mpmc_ring_buffer under concurrent producers and consumers.              *)
(***************************************************************************)
\* try_emplace, line 92: load tail.  The call pushes a value no other call
\* pushes.
EmplaceLoadTail(t) ==
    /\ m_pc[t] = "idle"
    /\ m_calls < MpmcMaxCalls
    /\ m_calls' = m_calls + 1
    /\ m_val' = [m_val EXCEPT ![t] = m_calls + 1]
    /\ m_idx' = [m_idx EXCEPT ![t] = mpmc_tail_]
    /\ m_pc' = [m_pc EXCEPT ![t] = "p_load_seq"]
    /\ UNCHANGED <<mpmcVars, m_claimed, m_taken, m_pushed, m_popcount>>
    /\ UNCHANGED notMpmc

\* A producer that goes on to claim the index when the cell's sequence is
\* behind the tail.
EmplaceLoadSeqIgnoresFull(t) ==
    /\ m_pc[t] = "p_load_seq"
    /\ LET diff == mpmc_push_diff(cells_[mpmc_cell(m_idx[t])].sequence, m_idx[t])
       IN  /\ m_pc' = [m_pc EXCEPT ![t] = IF diff <= 0 THEN "p_cas" ELSE "p_reload"]
           /\ UNCHANGED <<m_idx, m_val>>
    /\ UNCHANGED <<mpmcVars, m_calls, m_claimed, m_taken, m_pushed, m_popcount>>
    /\ UNCHANGED notMpmc

\* A producer that reports a full queue whenever the cell's sequence differs
\* from tail.
EmplaceLoadSeqFullOnAnyDiff(t) ==
    /\ m_pc[t] = "p_load_seq"
    /\ LET diff == mpmc_push_diff(cells_[mpmc_cell(m_idx[t])].sequence, m_idx[t])
       IN  /\ m_pc' = [m_pc EXCEPT ![t] = IF diff = 0 THEN "p_cas" ELSE "idle"]
           /\ m_idx' = IF diff # 0 THEN [m_idx EXCEPT ![t] = 0] ELSE m_idx
           /\ m_val' = IF diff # 0 THEN [m_val EXCEPT ![t] = NoValue] ELSE m_val
    /\ UNCHANGED <<mpmcVars, m_calls, m_claimed, m_taken, m_pushed, m_popcount>>
    /\ UNCHANGED notMpmc

\* try_emplace, lines 94-98 and 111-114: load the cell's sequence, compute
\* diff and branch; diff < 0 returns false.
EmplaceLoadSeq(t) ==
    /\ m_pc[t] = "p_load_seq"
    /\ LET diff == mpmc_push_diff(cells_[mpmc_cell(m_idx[t])].sequence, m_idx[t])
       IN  /\ m_pc' = [m_pc EXCEPT ![t] =
                          IF diff = 0 THEN "p_cas"
                          ELSE IF diff < 0 THEN "idle" ELSE "p_reload"]
           /\ m_idx' = IF diff < 0 THEN [m_idx EXCEPT ![t] = 0] ELSE m_idx
           /\ m_val' = IF diff < 0 THEN [m_val EXCEPT ![t] = NoValue] ELSE m_val
    /\ UNCHANGED <<mpmcVars, m_calls, m_claimed, m_taken, m_pushed, m_popcount>>
    /\ UNCHANGED notMpmc

\* A tail that is stored without being compared.
EmplaceCasBlind(t) ==
    /\ m_pc[t] = "p_cas"
    /\ mpmc_tail_' = Wrap(m_idx[t] + 1)
    /\ m_claimed' = [m_claimed EXCEPT ![m_idx[t]] = m_val[t]]
    /\ m_pc' = [m_pc EXCEPT ![t] = "p_construct"]
    /\ UNCHANGED <<mpmc_capacity_, mpmc_mask_, mpmc_head_, cells_,
                   m_idx, m_val, m_calls, m_taken, m_pushed, m_popcount>>
    /\ UNCHANGED notMpmc

\* try_emplace, lines 100-104: the compare-exchange on tail succeeds.
EmplaceCasSucceed(t) ==
    /\ m_pc[t] = "p_cas"
    /\ mpmc_tail_ = m_idx[t]
    /\ mpmc_tail_' = Wrap(m_idx[t] + 1)
    /\ m_claimed' = [m_claimed EXCEPT ![m_idx[t]] = m_val[t]]
    /\ m_pc' = [m_pc EXCEPT ![t] = "p_construct"]
    /\ UNCHANGED <<mpmc_capacity_, mpmc_mask_, mpmc_head_, cells_,
                   m_idx, m_val, m_calls, m_taken, m_pushed, m_popcount>>
    /\ UNCHANGED notMpmc

\* try_emplace, lines 100-110: the weak compare-exchange fails, because tail
\* has moved or spuriously, and leaves the current tail in the local.
EmplaceCasFail(t) ==
    /\ m_pc[t] = "p_cas"
    /\ m_idx' = [m_idx EXCEPT ![t] = mpmc_tail_]
    /\ m_pc' = [m_pc EXCEPT ![t] = "p_reload"]
    /\ UNCHANGED <<mpmcVars, m_val, m_calls, m_claimed, m_taken, m_pushed,
                   m_popcount>>
    /\ UNCHANGED notMpmc

\* A producer that publishes the cell without constructing its element.
EmplaceConstructNothing(t) ==
    /\ m_pc[t] = "p_construct"
    /\ m_pc' = [m_pc EXCEPT ![t] = "p_publish"]
    /\ UNCHANGED <<mpmcVars, m_idx, m_val, m_calls, m_claimed, m_taken, m_pushed,
                   m_popcount>>
    /\ UNCHANGED notMpmc

\* try_emplace, line 105: construct the element in the claimed cell.
EmplaceConstruct(t) ==
    /\ m_pc[t] = "p_construct"
    /\ cells_' = [cells_ EXCEPT ![mpmc_cell(m_idx[t])].storage = m_val[t]]
    /\ m_pc' = [m_pc EXCEPT ![t] = "p_publish"]
    /\ UNCHANGED <<mpmc_capacity_, mpmc_mask_, mpmc_head_, mpmc_tail_,
                   m_idx, m_val, m_calls, m_claimed, m_taken, m_pushed,
                   m_popcount>>
    /\ UNCHANGED notMpmc

\* try_emplace, lines 107-108: publish with sequence = tail + 1, return true.
\* A returning call's locals are dead and are cleared.
EmplacePublish(t) ==
    /\ m_pc[t] = "p_publish"
    /\ cells_' = [cells_ EXCEPT ![mpmc_cell(m_idx[t])].sequence = Wrap(m_idx[t] + 1)]
    /\ m_pushed' = m_pushed \cup {m_val[t]}
    /\ m_pc' = [m_pc EXCEPT ![t] = "idle"]
    /\ m_idx' = [m_idx EXCEPT ![t] = 0]
    /\ m_val' = [m_val EXCEPT ![t] = NoValue]
    /\ UNCHANGED <<mpmc_capacity_, mpmc_mask_, mpmc_head_, mpmc_tail_,
                   m_calls, m_claimed, m_taken, m_popcount>>
    /\ UNCHANGED notMpmc

\* try_emplace, line 117: reload tail and go round the loop.
EmplaceReload(t) ==
    /\ m_pc[t] = "p_reload"
    /\ m_idx' = [m_idx EXCEPT ![t] = mpmc_tail_]
    /\ m_pc' = [m_pc EXCEPT ![t] = "p_load_seq"]
    /\ UNCHANGED <<mpmcVars, m_val, m_calls, m_claimed, m_taken, m_pushed,
                   m_popcount>>
    /\ UNCHANGED notMpmc

\* try_pop, line 133: load head.
MpmcPopLoadHead(t) ==
    /\ m_pc[t] = "idle"
    /\ m_idx' = [m_idx EXCEPT ![t] = mpmc_head_]
    /\ m_pc' = [m_pc EXCEPT ![t] = "c_load_seq"]
    /\ UNCHANGED <<mpmcVars, m_val, m_calls, m_claimed, m_taken, m_pushed,
                   m_popcount>>
    /\ UNCHANGED notMpmc

\* A consumer that goes round its loop when the cell's sequence is behind
\* head + 1.
MpmcPopLoadSeqSpinsOnEmpty(t) ==
    /\ m_pc[t] = "c_load_seq"
    /\ LET diff == mpmc_pop_diff(cells_[mpmc_cell(m_idx[t])].sequence, m_idx[t])
       IN  m_pc' = [m_pc EXCEPT ![t] = IF diff = 0 THEN "c_cas" ELSE "c_reload"]
    /\ UNCHANGED <<mpmcVars, m_idx, m_val, m_calls, m_claimed, m_taken, m_pushed,
                   m_popcount>>
    /\ UNCHANGED notMpmc

\* try_pop, lines 135-139 and 155-158: load the cell's sequence, compute diff
\* and branch; diff < 0 returns false.
MpmcPopLoadSeq(t) ==
    /\ m_pc[t] = "c_load_seq"
    /\ LET diff == mpmc_pop_diff(cells_[mpmc_cell(m_idx[t])].sequence, m_idx[t])
       IN  /\ m_pc' = [m_pc EXCEPT ![t] =
                          IF diff = 0 THEN "c_cas"
                          ELSE IF diff < 0 THEN "idle" ELSE "c_reload"]
           /\ m_idx' = IF diff < 0 THEN [m_idx EXCEPT ![t] = 0] ELSE m_idx
    /\ UNCHANGED <<mpmcVars, m_val, m_calls, m_claimed, m_taken, m_pushed,
                   m_popcount>>
    /\ UNCHANGED notMpmc

\* A head that is stored without being compared.
MpmcPopCasBlind(t) ==
    /\ m_pc[t] = "c_cas"
    /\ mpmc_head_' = Wrap(m_idx[t] + 1)
    /\ m_pc' = [m_pc EXCEPT ![t] = "c_move"]
    /\ UNCHANGED <<mpmc_capacity_, mpmc_mask_, mpmc_tail_, cells_,
                   m_idx, m_val, m_calls, m_claimed, m_taken, m_pushed,
                   m_popcount>>
    /\ UNCHANGED notMpmc

\* try_pop, lines 141-145: the compare-exchange on head succeeds.
MpmcPopCasSucceed(t) ==
    /\ m_pc[t] = "c_cas"
    /\ mpmc_head_ = m_idx[t]
    /\ mpmc_head_' = Wrap(m_idx[t] + 1)
    /\ m_pc' = [m_pc EXCEPT ![t] = "c_move"]
    /\ UNCHANGED <<mpmc_capacity_, mpmc_mask_, mpmc_tail_, cells_,
                   m_idx, m_val, m_calls, m_claimed, m_taken, m_pushed,
                   m_popcount>>
    /\ UNCHANGED notMpmc

\* try_pop, lines 141-154: the weak compare-exchange fails, because head has
\* moved or spuriously, and leaves the current head in the local.
MpmcPopCasFail(t) ==
    /\ m_pc[t] = "c_cas"
    /\ m_idx' = [m_idx EXCEPT ![t] = mpmc_head_]
    /\ m_pc' = [m_pc EXCEPT ![t] = "c_reload"]
    /\ UNCHANGED <<mpmcVars, m_val, m_calls, m_claimed, m_taken, m_pushed,
                   m_popcount>>
    /\ UNCHANGED notMpmc

\* try_pop, lines 146-148: move the element out and destroy it.
MpmcPopMove(t) ==
    /\ m_pc[t] = "c_move"
    /\ m_val' = [m_val EXCEPT ![t] = cells_[mpmc_cell(m_idx[t])].storage]
    /\ m_taken' = m_taken \cup {<<m_idx[t], cells_[mpmc_cell(m_idx[t])].storage>>}
    /\ cells_' = [cells_ EXCEPT ![mpmc_cell(m_idx[t])].storage = NoValue]
    /\ m_pc' = [m_pc EXCEPT ![t] = "c_release"]
    /\ UNCHANGED <<mpmc_capacity_, mpmc_mask_, mpmc_head_, mpmc_tail_,
                   m_idx, m_calls, m_claimed, m_pushed, m_popcount>>
    /\ UNCHANGED notMpmc

\* A release that marks the cell empty for the cycle it was in.
MpmcPopReleaseSameCycle(t) ==
    /\ m_pc[t] = "c_release"
    /\ cells_' = [cells_ EXCEPT ![mpmc_cell(m_idx[t])].sequence = m_idx[t]]
    /\ m_popcount' = [m_popcount EXCEPT ![m_val[t]] = @ + 1]
    /\ m_pc' = [m_pc EXCEPT ![t] = "idle"]
    /\ m_idx' = [m_idx EXCEPT ![t] = 0]
    /\ m_val' = [m_val EXCEPT ![t] = NoValue]
    /\ UNCHANGED <<mpmc_capacity_, mpmc_mask_, mpmc_head_, mpmc_tail_,
                   m_calls, m_claimed, m_taken, m_pushed>>
    /\ UNCHANGED notMpmc

\* try_pop, lines 151-152: release the cell with sequence = head + capacity_
\* and return true; the caller logs the value it was given.
MpmcPopRelease(t) ==
    /\ m_pc[t] = "c_release"
    /\ cells_' = [cells_ EXCEPT ![mpmc_cell(m_idx[t])].sequence =
                                    Wrap(m_idx[t] + mpmc_capacity_)]
    /\ m_popcount' = [m_popcount EXCEPT ![m_val[t]] = @ + 1]
    /\ m_pc' = [m_pc EXCEPT ![t] = "idle"]
    /\ m_idx' = [m_idx EXCEPT ![t] = 0]
    /\ m_val' = [m_val EXCEPT ![t] = NoValue]
    /\ UNCHANGED <<mpmc_capacity_, mpmc_mask_, mpmc_head_, mpmc_tail_,
                   m_calls, m_claimed, m_taken, m_pushed>>
    /\ UNCHANGED notMpmc

\* try_pop, line 160: reload head and go round the loop.
MpmcPopReload(t) ==
    /\ m_pc[t] = "c_reload"
    /\ m_idx' = [m_idx EXCEPT ![t] = mpmc_head_]
    /\ m_pc' = [m_pc EXCEPT ![t] = "c_load_seq"]
    /\ UNCHANGED <<mpmcVars, m_val, m_calls, m_claimed, m_taken, m_pushed,
                   m_popcount>>
    /\ UNCHANGED notMpmc

MpmcInit ==
    /\ \E capacity \in 1 .. MpmcThreadedMaxRequested : MpmcCtor(capacity)
    /\ MpmcThreadsIdle
    /\ SpscCtor(0)
    /\ SpscThreadsIdle
    /\ SeqParked
    /\ LockCtor
    /\ MemParked

MpmcNext ==
    \/ \E t \in Producers :
          \/ EmplaceLoadTail(t) \/ EmplaceLoadSeq(t)
          \/ EmplaceCasSucceed(t) \/ EmplaceCasFail(t)
          \/ EmplaceConstruct(t) \/ EmplacePublish(t) \/ EmplaceReload(t)
    \/ \E t \in Consumers :
          \/ MpmcPopLoadHead(t) \/ MpmcPopLoadSeq(t)
          \/ MpmcPopCasSucceed(t) \/ MpmcPopCasFail(t)
          \/ MpmcPopMove(t) \/ MpmcPopRelease(t) \/ MpmcPopReload(t)

\* Producer and consumer threads on one mpmc_ring_buffer.
MpmcSpec == MpmcInit /\ [][MpmcNext]_vars

\* Two producers and one consumer on one mpmc_ring_buffer, for progress.
MpmcProgressNext ==
    \/ \E t \in Producers :
          \/ EmplaceLoadTail(t) \/ EmplaceLoadSeq(t)
          \/ EmplaceCasSucceed(t) \/ EmplaceCasFail(t)
          \/ EmplaceConstruct(t) \/ EmplacePublish(t) \/ EmplaceReload(t)
    \/ \E t \in {"consumer1"} :
          \/ MpmcPopLoadHead(t) \/ MpmcPopLoadSeq(t)
          \/ MpmcPopCasSucceed(t) \/ MpmcPopCasFail(t)
          \/ MpmcPopMove(t) \/ MpmcPopRelease(t) \/ MpmcPopReload(t)

\* The scheduler keeps running some thread, and the weak compare-exchanges
\* that find the expected value do not all fail for ever.
MpmcFairness ==
    /\ WF_vars(MpmcProgressNext)
    /\ SF_vars(\E t \in Producers : EmplaceCasSucceed(t))
    /\ SF_vars(MpmcPopCasSucceed("consumer1"))

MpmcFairSpec == MpmcInit /\ [][MpmcProgressNext]_vars /\ MpmcFairness

(***************************************************************************)
(* mpmc_ring_buffer::approximate_size() called by a thread of its own      *)
(* while a producer and a consumer run.                                    *)
(***************************************************************************)
\* approximate_size, line 84: load head.
ApproximateSizeLoadHead ==
    /\ size_obs.pc \in {"idle", "returned"}
    /\ size_obs' = [pc |-> "loaded", head |-> mpmc_head_, res |-> 0]
    /\ UNCHANGED <<spscVars, mpmcVars, mpmcThreadVars, seqVars, lockVars>>
    /\ UNCHANGED <<arenaVars, poolVars, shmVars, ctorVars, batchVars, slotVars>>

\* approximate_size, lines 85-86: load tail and return tail - head.
ApproximateSizeLoadTail ==
    /\ size_obs.pc = "loaded"
    /\ size_obs' = [pc |-> "returned", head |-> size_obs.head,
                    res |-> Wrap(mpmc_tail_ - size_obs.head)]
    /\ UNCHANGED <<spscVars, mpmcVars, mpmcThreadVars, seqVars, lockVars>>
    /\ UNCHANGED <<arenaVars, poolVars, shmVars, ctorVars, batchVars, slotVars>>

MpmcSizeNext ==
    \/ \E t \in {"producer1"} :
          \/ EmplaceLoadTail(t) \/ EmplaceLoadSeq(t)
          \/ EmplaceCasSucceed(t) \/ EmplaceCasFail(t)
          \/ EmplaceConstruct(t) \/ EmplacePublish(t) \/ EmplaceReload(t)
    \/ \E t \in {"consumer1"} :
          \/ MpmcPopLoadHead(t) \/ MpmcPopLoadSeq(t)
          \/ MpmcPopCasSucceed(t) \/ MpmcPopCasFail(t)
          \/ MpmcPopMove(t) \/ MpmcPopRelease(t) \/ MpmcPopReload(t)
    \/ ApproximateSizeLoadHead
    \/ ApproximateSizeLoadTail

\* One producer, one consumer and a thread that calls approximate_size().
MpmcSizeSpec == MpmcInit /\ [][MpmcSizeNext]_vars

(***************************************************************************)
(* ttas_spinlock: threads that take the lock with lock() or try_lock(),    *)
(* increment the counter with a plain read and a plain write, and unlock.  *)
(***************************************************************************)
notLock == <<spscVars, mpmcVars, mpmcThreadVars, seqVars, memVars>>

InCritical(t) == l_pc[t] \in {"cs_read", "cs_write", "unlock"}

\* lock(), line 25: backoff starts at 1.
LockEnter(t) ==
    /\ l_pc[t] = "idle"
    /\ l_done[t] < LockIters
    /\ l_backoff' = [l_backoff EXCEPT ![t] = 1]
    /\ l_pc' = [l_pc EXCEPT ![t] = "test"]
    /\ UNCHANGED <<flag_, l_tmp, l_done, counter, l_tries, l_last>>
    /\ UNCHANGED notLock

\* A test loop that doubles the backoff without the upper limit.
LockTestUncapped(t) ==
    /\ l_pc[t] = "test"
    /\ IF flag_
       THEN /\ l_backoff' = [l_backoff EXCEPT ![t] = Wrap(@ * 2)]
            /\ UNCHANGED l_pc
       ELSE /\ l_pc' = [l_pc EXCEPT ![t] = "cas"]
            /\ UNCHANGED l_backoff
    /\ UNCHANGED <<flag_, l_tmp, l_done, counter, l_tries, l_last>>
    /\ UNCHANGED notLock

\* lock(), lines 28-31: the relaxed load of the test loop; while the flag is
\* set, pause(backoff) and double the backoff up to max_backoff_.
LockTest(t) ==
    /\ l_pc[t] = "test"
    /\ IF flag_
       THEN /\ l_backoff' = [l_backoff EXCEPT ![t] =
                                IF Wrap(@ * 2) < max_backoff_ THEN Wrap(@ * 2)
                                ELSE max_backoff_]
            /\ UNCHANGED l_pc
       ELSE /\ l_pc' = [l_pc EXCEPT ![t] = "cas"]
            /\ UNCHANGED l_backoff
    /\ UNCHANGED <<flag_, l_tmp, l_done, counter, l_tries, l_last>>
    /\ UNCHANGED notLock

\* A test-and-set phase that stores the flag without comparing it.
LockCasBlind(t) ==
    /\ l_pc[t] = "cas"
    /\ flag_' = TRUE
    /\ l_pc' = [l_pc EXCEPT ![t] = "cs_read"]
    /\ l_backoff' = [l_backoff EXCEPT ![t] = 1]
    /\ UNCHANGED <<l_tmp, l_done, counter, l_tries, l_last>>
    /\ UNCHANGED notLock

\* lock(), lines 34-37: compare_exchange_strong(false -> true); on success
\* lock() returns (its local backoff dies), on failure the outer loop goes
\* back to the test phase.
LockCas(t) ==
    /\ l_pc[t] = "cas"
    /\ IF flag_ = FALSE
       THEN /\ flag_' = TRUE
            /\ l_pc' = [l_pc EXCEPT ![t] = "cs_read"]
            /\ l_backoff' = [l_backoff EXCEPT ![t] = 1]
       ELSE /\ l_pc' = [l_pc EXCEPT ![t] = "test"]
            /\ UNCHANGED <<flag_, l_backoff>>
    /\ UNCHANGED <<l_tmp, l_done, counter, l_tries, l_last>>
    /\ UNCHANGED notLock

\* A try_lock that sets the flag whatever it held.
TryLockBlind(t) ==
    /\ l_pc[t] = "idle"
    /\ l_done[t] < LockIters
    /\ l_tries < LockMaxTries
    /\ l_tries' = l_tries + 1
    /\ flag_' = TRUE
    /\ l_last' = [thread |-> t, ret |-> TRUE]
    /\ l_pc' = [l_pc EXCEPT ![t] = "cs_read"]
    /\ UNCHANGED <<l_backoff, l_tmp, l_done, counter>>
    /\ UNCHANGED notLock

\* try_lock(), lines 41-45: one compare_exchange_strong(false -> true),
\* whose result is returned.
TryLock(t) ==
    /\ l_pc[t] = "idle"
    /\ l_done[t] < LockIters
    /\ l_tries < LockMaxTries
    /\ l_tries' = l_tries + 1
    /\ IF flag_ = FALSE
       THEN /\ flag_' = TRUE
            /\ l_last' = [thread |-> t, ret |-> TRUE]
            /\ l_pc' = [l_pc EXCEPT ![t] = "cs_read"]
       ELSE /\ l_last' = [thread |-> t, ret |-> FALSE]
            /\ UNCHANGED <<flag_, l_pc>>
    /\ UNCHANGED <<l_backoff, l_tmp, l_done, counter>>
    /\ UNCHANGED notLock

\* The holder reads the counter.
CriticalRead(t) ==
    /\ l_pc[t] = "cs_read"
    /\ l_tmp' = [l_tmp EXCEPT ![t] = counter]
    /\ l_pc' = [l_pc EXCEPT ![t] = "cs_write"]
    /\ UNCHANGED <<flag_, l_backoff, l_done, counter, l_tries, l_last>>
    /\ UNCHANGED notLock

\* The holder writes the counter it read, plus one.
CriticalWrite(t) ==
    /\ l_pc[t] = "cs_write"
    /\ counter' = l_tmp[t] + 1
    /\ l_tmp' = [l_tmp EXCEPT ![t] = 0]
    /\ l_pc' = [l_pc EXCEPT ![t] = "unlock"]
    /\ UNCHANGED <<flag_, l_backoff, l_done, l_tries, l_last>>
    /\ UNCHANGED notLock

\* An unlock that leaves the flag set.
UnlockKeepsFlag(t) ==
    /\ l_pc[t] = "unlock"
    /\ flag_' = flag_
    /\ l_done' = [l_done EXCEPT ![t] = @ + 1]
    /\ l_pc' = [l_pc EXCEPT ![t] = "idle"]
    /\ UNCHANGED <<l_backoff, l_tmp, counter, l_tries, l_last>>
    /\ UNCHANGED notLock

\* unlock(), lines 47-50: store false.
Unlock(t) ==
    /\ l_pc[t] = "unlock"
    /\ flag_' = FALSE
    /\ l_done' = [l_done EXCEPT ![t] = @ + 1]
    /\ l_pc' = [l_pc EXCEPT ![t] = "idle"]
    /\ UNCHANGED <<l_backoff, l_tmp, counter, l_tries, l_last>>
    /\ UNCHANGED notLock

LockInit ==
    /\ LockCtor
    /\ SpscCtor(0) /\ SpscThreadsIdle
    /\ MpmcCtor(0) /\ MpmcThreadsIdle
    /\ SeqParked
    /\ MemParked

LockNext ==
    \E t \in LockThreads :
        \/ LockEnter(t) \/ LockTest(t) \/ LockCas(t) \/ TryLock(t)
        \/ CriticalRead(t) \/ CriticalWrite(t) \/ Unlock(t)

\* Threads contending for one ttas_spinlock.
LockSpec == LockInit /\ [][LockNext]_vars

\* Two of the threads, for the backoff and for progress.
LockPairNext ==
    \E t \in {"thread1", "thread2"} :
        \/ LockEnter(t) \/ LockTest(t) \/ LockCas(t) \/ TryLock(t)
        \/ CriticalRead(t) \/ CriticalWrite(t) \/ Unlock(t)

LockPairSpec == LockInit /\ [][LockPairNext]_vars

\* The steps of thread t when the threads use lock() and unlock() only.
LockThreadStep(t) ==
    \/ LockEnter(t) \/ LockTest(t) \/ LockCas(t)
    \/ CriticalRead(t) \/ CriticalWrite(t) \/ Unlock(t)

LockFairNext == \E t \in {"thread1", "thread2"} : LockThreadStep(t)

\* Every thread keeps being scheduled.
LockFairness == \A t \in {"thread1", "thread2"} : WF_vars(LockThreadStep(t))

LockFairSpec == LockInit /\ [][LockFairNext]_vars /\ LockFairness

(***************************************************************************)
(* Sequential use: one thread makes whole calls, one after the other, on   *)
(* either queue.                                                           *)
(***************************************************************************)
SeqCall(op, ok, val, size, isEmpty, isFull) ==
    [op |-> op, ok |-> ok, val |-> val, size |-> size,
     oldest |-> IF seq_ref = <<>> THEN NoValue ELSE Head(seq_ref),
     run |-> seq_run, empty |-> isEmpty, full |-> isFull]

\* What a completed try_push leaves in the caller's record.
SeqAfterPush(ok, v, isEmpty, isFull) ==
    /\ seq_prev' = seq_last
    /\ seq_last' = SeqCall("push", ok, v, Len(seq_ref), isEmpty, isFull)
    /\ seq_ref' = IF ok THEN Append(seq_ref, v) ELSE seq_ref
    /\ seq_count' = IF ok THEN seq_count + 1 ELSE seq_count
    /\ seq_run' = IF ok /\ seq_run >= 0 THEN seq_run + 1 ELSE seq_run
    /\ UNCHANGED <<seq_sut, seq_popped, seq_obs>>

\* What a completed try_pop leaves in the caller's record; emptyAfter is
\* empty() of the queue on return.
SeqAfterPop(ok, out, isEmpty, isFull, emptyAfter) ==
    /\ seq_prev' = seq_last
    /\ seq_last' = SeqCall("pop", ok, out, Len(seq_ref), isEmpty, isFull)
    /\ seq_ref' = IF ok /\ seq_ref # <<>> THEN Tail(seq_ref) ELSE seq_ref
    /\ seq_popped' = TRUE
    /\ seq_run' = IF emptyAfter THEN 0 ELSE -1
    /\ UNCHANGED <<seq_sut, seq_count, seq_obs>>

\* spsc_ring_buffer::try_push(const T&), lines 48-59, as one call.
SeqSpscPush ==
    /\ seq_sut = "spsc"
    /\ seq_count < SeqMaxPush
    /\ LET value == seq_count + 1
           tail == spsc_tail_
           head == spsc_head_
       IN  IF spsc_distance(tail, head) = spsc_capacity
           THEN /\ SeqAfterPush(FALSE, value, spsc_empty, spsc_full)
                /\ UNCHANGED <<storage_, spsc_tail_>>
           ELSE /\ storage_' = [storage_ EXCEPT ![spsc_element_at(tail)] = value]
                /\ spsc_tail_' = spsc_next(tail)
                /\ SeqAfterPush(TRUE, value, spsc_empty, spsc_full)
    /\ UNCHANGED <<storage_capacity_, spsc_mask_, spsc_head_, c_out,
                   p_pc, p_tail, p_head, p_value, c_pc, c_head, c_tail,
                   spsc_pushed, spsc_popped>>
    /\ UNCHANGED <<mpmcVars, mpmcThreadVars, lockVars, memVars>>

\* A try_pop that releases the slot without moving the element to out.
SeqSpscPopKeepsOut ==
    /\ seq_sut = "spsc"
    /\ LET head == spsc_head_
           tail == spsc_tail_
       IN  IF head = tail
           THEN /\ SeqAfterPop(FALSE, c_out, spsc_empty, spsc_full, TRUE)
                /\ UNCHANGED <<storage_, spsc_head_, c_out>>
           ELSE /\ storage_' = [storage_ EXCEPT ![spsc_element_at(head)] = NoValue]
                /\ spsc_head_' = spsc_next(head)
                /\ SeqAfterPop(TRUE, c_out, spsc_empty, spsc_full,
                               spsc_next(head) = tail)
                /\ UNCHANGED c_out
    /\ UNCHANGED <<storage_capacity_, spsc_mask_, spsc_tail_,
                   p_pc, p_tail, p_head, p_value, c_pc, c_head, c_tail,
                   spsc_pushed, spsc_popped>>
    /\ UNCHANGED <<mpmcVars, mpmcThreadVars, lockVars, memVars>>

\* spsc_ring_buffer::try_pop, lines 74-86, as one call.
SeqSpscPop ==
    /\ seq_sut = "spsc"
    /\ LET head == spsc_head_
           tail == spsc_tail_
       IN  IF head = tail
           THEN /\ SeqAfterPop(FALSE, c_out, spsc_empty, spsc_full, TRUE)
                /\ UNCHANGED <<storage_, spsc_head_, c_out>>
           ELSE /\ c_out' = storage_[spsc_element_at(head)]
                /\ storage_' = [storage_ EXCEPT ![spsc_element_at(head)] = NoValue]
                /\ spsc_head_' = spsc_next(head)
                /\ SeqAfterPop(TRUE, storage_[spsc_element_at(head)],
                               spsc_empty, spsc_full, spsc_next(head) = tail)
    /\ UNCHANGED <<storage_capacity_, spsc_mask_, spsc_tail_,
                   p_pc, p_tail, p_head, p_value, c_pc, c_head, c_tail,
                   spsc_pushed, spsc_popped>>
    /\ UNCHANGED <<mpmcVars, mpmcThreadVars, lockVars, memVars>>

\* mpmc_ring_buffer::try_push -> try_emplace, lines 90-124, as one call with
\* no other thread running: a failed weak compare-exchange only repeats the
\* iteration, and with diff > 0 the loop would not return.
SeqMpmcPush ==
    /\ seq_sut = "mpmc"
    /\ seq_count < SeqMaxPush
    /\ LET value == seq_count + 1
           tail == mpmc_tail_
           c == mpmc_cell(tail)
           diff == mpmc_push_diff(cells_[c].sequence, tail)
       IN  /\ diff <= 0
           /\ IF diff = 0
              THEN /\ mpmc_tail_' = Wrap(tail + 1)
                   /\ cells_' = [cells_ EXCEPT ![c] =
                                    [sequence |-> Wrap(tail + 1), storage |-> value]]
                   /\ SeqAfterPush(TRUE, value, mpmc_empty, mpmc_full)
              ELSE /\ SeqAfterPush(FALSE, value, mpmc_empty, mpmc_full)
                   /\ UNCHANGED <<mpmc_tail_, cells_>>
    /\ UNCHANGED <<mpmc_capacity_, mpmc_mask_, mpmc_head_, c_out>>
    /\ UNCHANGED <<mpmcThreadVars, lockVars, memVars>>
    /\ UNCHANGED <<storage_capacity_, spsc_mask_, spsc_head_, spsc_tail_, storage_,
                   p_pc, p_tail, p_head, p_value, c_pc, c_head, c_tail,
                   spsc_pushed, spsc_popped>>

\* mpmc_ring_buffer::try_pop, lines 131-162, as one call with no other
\* thread running.
SeqMpmcPop ==
    /\ seq_sut = "mpmc"
    /\ LET head == mpmc_head_
           c == mpmc_cell(head)
           diff == mpmc_pop_diff(cells_[c].sequence, head)
       IN  /\ diff <= 0
           /\ IF diff = 0
              THEN /\ mpmc_head_' = Wrap(head + 1)
                   /\ c_out' = cells_[c].storage
                   /\ cells_' = [cells_ EXCEPT ![c] =
                                    [sequence |-> Wrap(head + mpmc_capacity_),
                                     storage |-> NoValue]]
                   /\ SeqAfterPop(TRUE, cells_[c].storage, mpmc_empty, mpmc_full,
                                  Wrap(head + 1) = mpmc_tail_)
              ELSE /\ SeqAfterPop(FALSE, c_out, mpmc_empty, mpmc_full, mpmc_empty)
                   /\ UNCHANGED <<mpmc_head_, cells_, c_out>>
    /\ UNCHANGED <<mpmc_capacity_, mpmc_mask_, mpmc_tail_>>
    /\ UNCHANGED <<mpmcThreadVars, lockVars, memVars>>
    /\ UNCHANGED <<storage_capacity_, spsc_mask_, spsc_head_, spsc_tail_, storage_,
                   p_pc, p_tail, p_head, p_value, c_pc, c_head, c_tail,
                   spsc_pushed, spsc_popped>>

\* A query: empty(), full() or approximate_size(), none of which writes to
\* the queue.
SeqQuery(op, res) ==
    /\ seq_obs' = [op |-> op, res |-> res, size |-> Len(seq_ref)]
    /\ UNCHANGED <<seq_sut, seq_ref, seq_last, seq_prev, seq_run, seq_popped,
                   seq_count>>
    /\ UNCHANGED <<spscVars, mpmcVars, mpmcThreadVars, lockVars, memVars>>

\* spsc_ring_buffer::empty, lines 138-143.
SeqSpscEmpty == seq_sut = "spsc" /\ SeqQuery("empty", spsc_empty)

\* spsc_ring_buffer::full, lines 145-150.
SeqSpscFull == seq_sut = "spsc" /\ SeqQuery("full", spsc_full)

\* mpmc_ring_buffer::empty, lines 66-71.
SeqMpmcEmpty == seq_sut = "mpmc" /\ SeqQuery("empty", mpmc_empty)

\* mpmc_ring_buffer::full, lines 74-80.
SeqMpmcFull == seq_sut = "mpmc" /\ SeqQuery("full", mpmc_full)

\* mpmc_ring_buffer::approximate_size, lines 82-87.
SeqMpmcApproximateSize ==
    seq_sut = "mpmc" /\ SeqQuery("approximate_size", mpmc_approximate_size)

SeqHarnessInit ==
    /\ seq_ref = <<>> /\ seq_last = NoCall /\ seq_prev = NoCall
    /\ seq_obs = NoQuery /\ seq_run = 0 /\ seq_popped = FALSE /\ seq_count = 0

SeqInit ==
    /\ \/ /\ seq_sut = "spsc"
          /\ \E capacity \in 0 .. SpscMaxRequested : SpscCtor(capacity)
          /\ MpmcCtor(0)
       \/ /\ seq_sut = "mpmc"
          /\ \E capacity \in 0 .. MpmcMaxRequested : MpmcCtor(capacity)
          /\ SpscCtor(0)
    /\ SpscThreadsIdle
    /\ MpmcThreadsIdle
    /\ SeqHarnessInit
    /\ LockCtor
    /\ MemParked

SeqNext ==
    \/ SeqSpscPush \/ SeqSpscPop \/ SeqSpscEmpty \/ SeqSpscFull
    \/ SeqMpmcPush \/ SeqMpmcPop
    \/ SeqMpmcEmpty \/ SeqMpmcFull \/ SeqMpmcApproximateSize

\* One thread making whole calls on one queue.
SeqSpec == SeqInit /\ [][SeqNext]_vars

(***************************************************************************)
(* The constructors of both queues, called with capacities from both ends  *)
(* of std::size_t.                                                         *)
(***************************************************************************)
\* Capacities whose rounding does not fit std::size_t.
CtorHugeCapacities == {IndexMod \div 2 + 1, IndexMod - 1}

CtorCapacities == (0 .. CtorMaxRequested) \cup CtorHugeCapacities

\* spsc_ring_buffer::spsc_ring_buffer, lines 31-36, on a new object.
SpscConstruct(capacity) ==
    /\ storage_capacity_' = round_up_to_power_of_two(Wrap(capacity + 1))
    /\ spsc_mask_' = Wrap(storage_capacity_' - 1)
    /\ spsc_head_' = 0
    /\ spsc_tail_' = 0
    /\ storage_' = [i \in 0 .. (storage_capacity_' - 1) |-> NoValue]
    /\ ctor_capacity' = [ctor_capacity EXCEPT !.spsc = capacity]
    /\ UNCHANGED <<p_pc, p_tail, p_head, p_value, c_pc, c_head, c_tail, c_out,
                   spsc_pushed, spsc_popped>>
    /\ UNCHANGED <<mpmcVars, mpmcThreadVars, seqVars, lockVars>>
    /\ UNCHANGED <<arenaVars, poolVars, shmVars, batchVars, slotVars, observerVars>>

\* mpmc_ring_buffer::mpmc_ring_buffer, lines 35-45, on a new object.
MpmcConstruct(capacity) ==
    /\ mpmc_capacity_' = round_up_to_power_of_two(capacity)
    /\ mpmc_mask_' = Wrap(mpmc_capacity_' - 1)
    /\ mpmc_head_' = 0
    /\ mpmc_tail_' = 0
    /\ cells_' = [i \in 0 .. (mpmc_capacity_' - 1) |->
                     [sequence |-> i, storage |-> NoValue]]
    /\ ctor_capacity' = [ctor_capacity EXCEPT !.mpmc = capacity]
    /\ UNCHANGED <<spscVars, mpmcThreadVars, seqVars, lockVars>>
    /\ UNCHANGED <<arenaVars, poolVars, shmVars, batchVars, slotVars, observerVars>>

CtorInit ==
    /\ SpscCtor(0) /\ SpscThreadsIdle
    /\ MpmcCtor(0) /\ MpmcThreadsIdle
    /\ SeqParked
    /\ LockCtor
    /\ MemParked

CtorNext ==
    \/ \E capacity \in CtorCapacities : SpscConstruct(capacity)
    \/ \E capacity \in CtorCapacities : MpmcConstruct(capacity)

\* One thread that builds queue after queue.
CtorSpec == CtorInit /\ [][CtorNext]_vars

(***************************************************************************)
(* The batch calls of both queues, made by one thread.  A call is the loop *)
(* of try_push or try_pop calls it makes, on the queue as a value.         *)
(***************************************************************************)
\* The SPSC queue as seen by a call: the indices and the slots.
SpscQueue == [head |-> spsc_head_, tail |-> spsc_tail_, storage |-> storage_]

\* spsc_ring_buffer::try_push(const T&), lines 48-59.
spsc_try_push(q, value) ==
    IF spsc_distance(q.tail, q.head) = spsc_capacity
    THEN [ok |-> FALSE, q |-> q]
    ELSE [ok |-> TRUE,
          q |-> [q EXCEPT !.storage[spsc_element_at(q.tail)] = value,
                          !.tail = spsc_next(q.tail)]]

\* spsc_ring_buffer::try_pop, lines 74-86; val is what it moves to out.
spsc_try_pop(q) ==
    IF q.head = q.tail
    THEN [ok |-> FALSE, val |-> NoValue, q |-> q]
    ELSE [ok |-> TRUE, val |-> q.storage[spsc_element_at(q.head)],
          q |-> [q EXCEPT !.storage[spsc_element_at(q.head)] = NoValue,
                          !.head = spsc_next(q.head)]]

\* spsc_ring_buffer::try_push_batch, lines 88-95.
RECURSIVE spsc_try_push_batch(_, _, _)
spsc_try_push_batch(q, src, pushed) ==
    IF pushed < Len(src)
    THEN LET r == spsc_try_push(q, src[pushed + 1])
         IN  IF r.ok THEN spsc_try_push_batch(r.q, src, pushed + 1)
                     ELSE [q |-> q, ret |-> pushed]
    ELSE [q |-> q, ret |-> pushed]

\* spsc_ring_buffer::try_pop_batch, lines 97-104.
RECURSIVE spsc_try_pop_batch(_, _, _)
spsc_try_pop_batch(q, dst, popped) ==
    IF popped < Len(dst)
    THEN LET r == spsc_try_pop(q)
         IN  IF r.ok
             THEN spsc_try_pop_batch(r.q, [dst EXCEPT ![popped + 1] = r.val], popped + 1)
             ELSE [q |-> q, dst |-> dst, ret |-> popped]
    ELSE [q |-> q, dst |-> dst, ret |-> popped]

\* The MPMC queue as seen by a call.
MpmcQueue == [head |-> mpmc_head_, tail |-> mpmc_tail_, cells |-> cells_]

\* mpmc_ring_buffer::try_emplace, lines 90-119, with no other thread
\* running: ret is "true", "false", or "spin" when the loop would not
\* return (diff > 0 on every iteration).
mpmc_try_push(q, value) ==
    LET c == mpmc_cell(q.tail)
        diff == mpmc_push_diff(q.cells[c].sequence, q.tail)
    IN  IF diff = 0
        THEN [ret |-> "true",
              q |-> [q EXCEPT !.tail = Wrap(q.tail + 1),
                              !.cells[c] = [sequence |-> Wrap(q.tail + 1),
                                            storage |-> value]]]
        ELSE IF diff < 0 THEN [ret |-> "false", q |-> q]
        ELSE [ret |-> "spin", q |-> q]

\* mpmc_ring_buffer::try_pop, lines 131-162, with no other thread running.
mpmc_try_pop(q) ==
    LET c == mpmc_cell(q.head)
        diff == mpmc_pop_diff(q.cells[c].sequence, q.head)
    IN  IF diff = 0
        THEN [ret |-> "true", val |-> q.cells[c].storage,
              q |-> [q EXCEPT !.head = Wrap(q.head + 1),
                              !.cells[c] = [sequence |-> Wrap(q.head + mpmc_capacity_),
                                            storage |-> NoValue]]]
        ELSE IF diff < 0 THEN [ret |-> "false", val |-> NoValue, q |-> q]
        ELSE [ret |-> "spin", val |-> NoValue, q |-> q]

\* mpmc_ring_buffer::try_push_batch, lines 164-171; ret is -1 when a
\* try_push does not return.
RECURSIVE mpmc_try_push_batch(_, _, _)
mpmc_try_push_batch(q, src, pushed) ==
    IF pushed < Len(src)
    THEN LET r == mpmc_try_push(q, src[pushed + 1])
         IN  IF r.ret = "true" THEN mpmc_try_push_batch(r.q, src, pushed + 1)
             ELSE IF r.ret = "false" THEN [q |-> q, ret |-> pushed]
             ELSE [q |-> q, ret |-> -1]
    ELSE [q |-> q, ret |-> pushed]

\* mpmc_ring_buffer::try_pop_batch, lines 173-180.
RECURSIVE mpmc_try_pop_batch(_, _, _)
mpmc_try_pop_batch(q, dst, popped) ==
    IF popped < Len(dst)
    THEN LET r == mpmc_try_pop(q)
         IN  IF r.ret = "true"
             THEN mpmc_try_pop_batch(r.q, [dst EXCEPT ![popped + 1] = r.val], popped + 1)
             ELSE IF r.ret = "false" THEN [q |-> q, dst |-> dst, ret |-> popped]
             ELSE [q |-> q, dst |-> dst, ret |-> -1]
    ELSE [q |-> q, dst |-> dst, ret |-> popped]

\* The src array of a try_push_batch call: the next count values.
BatchSrc(count) == [i \in 1 .. count |-> seq_count + i]

\* The dst array handed to a try_pop_batch call holds no value yet.
BatchDst(count) == [i \in 1 .. count |-> NoValue]

BatchCall(op, count, ret, src, dst) ==
    [op |-> op, count |-> count, ret |-> ret, src |-> src, dst |-> dst,
     ref |-> seq_ref]

\* What a returned try_push_batch leaves in the caller's record.
BatchAfterPush(count, ret) ==
    /\ batch_last' = BatchCall("push_batch", count, ret, BatchSrc(count), <<>>)
    /\ seq_ref' = seq_ref \o SubSeq(BatchSrc(count), 1, ret)
    /\ seq_count' = seq_count + ret
    /\ UNCHANGED <<seq_sut, seq_last, seq_prev, seq_obs, seq_run, seq_popped>>

\* What a returned try_pop_batch leaves in the caller's record.
BatchAfterPop(count, ret, dst) ==
    /\ batch_last' = BatchCall("pop_batch", count, ret, <<>>, dst)
    /\ seq_ref' = IF ret <= Len(seq_ref) THEN SubSeq(seq_ref, ret + 1, Len(seq_ref))
                  ELSE <<>>
    /\ UNCHANGED <<seq_sut, seq_last, seq_prev, seq_obs, seq_run, seq_popped,
                   seq_count>>

SeqSpscPushBatch(count) ==
    /\ seq_sut = "spsc"
    /\ seq_count + count <= SeqMaxPush
    /\ LET r == spsc_try_push_batch(SpscQueue, BatchSrc(count), 0)
       IN  /\ spsc_tail_' = r.q.tail
           /\ storage_' = r.q.storage
           /\ BatchAfterPush(count, r.ret)
    /\ UNCHANGED <<storage_capacity_, spsc_mask_, spsc_head_, c_out,
                   p_pc, p_tail, p_head, p_value, c_pc, c_head, c_tail,
                   spsc_pushed, spsc_popped>>
    /\ UNCHANGED <<mpmcVars, mpmcThreadVars, lockVars>>
    /\ UNCHANGED <<arenaVars, poolVars, shmVars, ctorVars, slotVars, observerVars>>

SeqSpscPopBatch(count) ==
    /\ seq_sut = "spsc"
    /\ LET r == spsc_try_pop_batch(SpscQueue, BatchDst(count), 0)
       IN  /\ spsc_head_' = r.q.head
           /\ storage_' = r.q.storage
           /\ BatchAfterPop(count, r.ret, r.dst)
    /\ UNCHANGED <<storage_capacity_, spsc_mask_, spsc_tail_, c_out,
                   p_pc, p_tail, p_head, p_value, c_pc, c_head, c_tail,
                   spsc_pushed, spsc_popped>>
    /\ UNCHANGED <<mpmcVars, mpmcThreadVars, lockVars>>
    /\ UNCHANGED <<arenaVars, poolVars, shmVars, ctorVars, slotVars, observerVars>>

SeqMpmcPushBatch(count) ==
    /\ seq_sut = "mpmc"
    /\ seq_count + count <= SeqMaxPush
    /\ LET r == mpmc_try_push_batch(MpmcQueue, BatchSrc(count), 0)
       IN  /\ r.ret >= 0
           /\ mpmc_tail_' = r.q.tail
           /\ cells_' = r.q.cells
           /\ BatchAfterPush(count, r.ret)
    /\ UNCHANGED <<mpmc_capacity_, mpmc_mask_, mpmc_head_>>
    /\ UNCHANGED <<spscVars, mpmcThreadVars, lockVars>>
    /\ UNCHANGED <<arenaVars, poolVars, shmVars, ctorVars, slotVars, observerVars>>

SeqMpmcPopBatch(count) ==
    /\ seq_sut = "mpmc"
    /\ LET r == mpmc_try_pop_batch(MpmcQueue, BatchDst(count), 0)
       IN  /\ r.ret >= 0
           /\ mpmc_head_' = r.q.head
           /\ cells_' = r.q.cells
           /\ BatchAfterPop(count, r.ret, r.dst)
    /\ UNCHANGED <<mpmc_capacity_, mpmc_mask_, mpmc_tail_>>
    /\ UNCHANGED <<spscVars, mpmcThreadVars, lockVars>>
    /\ UNCHANGED <<arenaVars, poolVars, shmVars, ctorVars, slotVars, observerVars>>

BatchCounts == 0 .. BatchMaxCount

BatchInit == SeqInit

BatchNext ==
    \/ \E count \in BatchCounts : SeqSpscPushBatch(count)
    \/ \E count \in BatchCounts : SeqSpscPopBatch(count)
    \/ \E count \in BatchCounts : SeqMpmcPushBatch(count)
    \/ \E count \in BatchCounts : SeqMpmcPopBatch(count)

\* One thread making batch calls on one queue.
BatchSpec == BatchInit /\ [][BatchNext]_vars

(***************************************************************************)
(* The zero-copy slot interface of the SPSC queue, used by one thread: a   *)
(* producer slot is acquired, written and committed, a consumer slot is    *)
(* acquired and released.                                                  *)
(***************************************************************************)
SlotCall(op, slot, val, before) ==
    [op |-> op, slot |-> slot, val |-> val, before |-> before]

\* No slot is held: the last acquire returned null or was followed by its
\* commit or release.
SlotFree ==
    \/ slot_last.op \in {"none", "commit", "release"}
    \/ slot_last.op \in {"acquire_producer", "acquire_consumer"}
          /\ slot_last.slot = NullSlot

SlotFrame ==
    /\ UNCHANGED <<storage_capacity_, spsc_mask_, c_out,
                   p_pc, p_tail, p_head, p_value, c_pc, c_head, c_tail,
                   spsc_pushed, spsc_popped>>
    /\ UNCHANGED <<seq_sut, seq_last, seq_prev, seq_obs, seq_run, seq_popped>>
    /\ UNCHANGED <<mpmcVars, mpmcThreadVars, lockVars>>
    /\ UNCHANGED <<arenaVars, poolVars, shmVars, ctorVars, batchVars, observerVars>>

\* spsc_ring_buffer::try_acquire_producer_slot, lines 106-114.
SpscAcquireProducerSlot ==
    /\ seq_sut = "spsc"
    /\ SlotFree
    /\ seq_count < SeqMaxPush
    /\ LET tail == spsc_tail_
           head == spsc_head_
       IN  IF spsc_distance(tail, head) = spsc_capacity
           THEN slot_last' = SlotCall("acquire_producer", NullSlot, NoValue, SpscQueue)
           ELSE slot_last' = SlotCall("acquire_producer", spsc_element_at(tail),
                                      NoValue, SpscQueue)
    /\ UNCHANGED <<spsc_head_, spsc_tail_, storage_, seq_ref, seq_count>>
    /\ SlotFrame

\* The caller constructs its value in the slot it acquired.
SpscWriteSlot ==
    /\ seq_sut = "spsc"
    /\ slot_last.op = "acquire_producer" /\ slot_last.slot # NullSlot
    /\ storage_' = [storage_ EXCEPT ![slot_last.slot] = seq_count + 1]
    /\ slot_last' = [slot_last EXCEPT !.op = "write", !.val = seq_count + 1]
    /\ UNCHANGED <<spsc_head_, spsc_tail_, seq_ref, seq_count>>
    /\ SlotFrame

\* A commit that stores tail + 1 without the mask.
SpscCommitProducerSlotNoMask ==
    /\ seq_sut = "spsc"
    /\ slot_last.op = "write"
    /\ LET tail == spsc_tail_
       IN  spsc_tail_' = Wrap(tail + 1)
    /\ slot_last' = [slot_last EXCEPT !.op = "commit"]
    /\ seq_ref' = Append(seq_ref, slot_last.val)
    /\ seq_count' = seq_count + 1
    /\ UNCHANGED <<spsc_head_, storage_>>
    /\ SlotFrame

\* spsc_ring_buffer::commit_producer_slot, lines 116-120.
SpscCommitProducerSlot ==
    /\ seq_sut = "spsc"
    /\ slot_last.op = "write"
    /\ LET tail == spsc_tail_
       IN  spsc_tail_' = spsc_next(tail)
    /\ slot_last' = [slot_last EXCEPT !.op = "commit"]
    /\ seq_ref' = Append(seq_ref, slot_last.val)
    /\ seq_count' = seq_count + 1
    /\ UNCHANGED <<spsc_head_, storage_>>
    /\ SlotFrame

\* spsc_ring_buffer::try_acquire_consumer_slot, lines 122-130; val is the
\* element the returned pointer points at.
SpscAcquireConsumerSlot ==
    /\ seq_sut = "spsc"
    /\ SlotFree
    /\ LET head == spsc_head_
           tail == spsc_tail_
       IN  IF head = tail
           THEN slot_last' = SlotCall("acquire_consumer", NullSlot, NoValue, SpscQueue)
           ELSE slot_last' = SlotCall("acquire_consumer", spsc_element_at(head),
                                      storage_[spsc_element_at(head)], SpscQueue)
    /\ UNCHANGED <<spsc_head_, spsc_tail_, storage_, seq_ref, seq_count>>
    /\ SlotFrame

\* spsc_ring_buffer::release_consumer_slot, lines 132-136.
SpscReleaseConsumerSlot ==
    /\ seq_sut = "spsc"
    /\ slot_last.op = "acquire_consumer" /\ slot_last.slot # NullSlot
    /\ LET head == spsc_head_
       IN  spsc_head_' = spsc_next(head)
    /\ slot_last' = [slot_last EXCEPT !.op = "release"]
    /\ seq_ref' = IF seq_ref = <<>> THEN <<>> ELSE Tail(seq_ref)
    /\ UNCHANGED <<spsc_tail_, storage_, seq_count>>
    /\ SlotFrame

SlotInit == SeqInit /\ seq_sut = "spsc"

SlotNext ==
    \/ SpscAcquireProducerSlot
    \/ SpscWriteSlot
    \/ SpscCommitProducerSlot
    \/ SpscAcquireConsumerSlot
    \/ SpscReleaseConsumerSlot

\* One thread using the slot interface of an SPSC queue.
SlotSpec == SlotInit /\ [][SlotNext]_vars

\* A commit that tests for a full queue and then leaves tail alone.
SpscCommitAfterNullChecked ==
    /\ seq_sut = "spsc"
    /\ slot_last.op = "acquire_producer" /\ slot_last.slot = NullSlot
    /\ LET tail == spsc_tail_
       IN  spsc_tail_' = IF spsc_full THEN tail ELSE spsc_next(tail)
    /\ slot_last' = SlotCall("commit_unacquired", NullSlot, NoValue, SpscQueue)
    /\ UNCHANGED <<spsc_head_, storage_, seq_ref, seq_count>>
    /\ SlotFrame

\* commit_producer_slot, lines 116-120, called although
\* try_acquire_producer_slot has just returned null.
SpscCommitAfterNull ==
    /\ seq_sut = "spsc"
    /\ slot_last.op = "acquire_producer" /\ slot_last.slot = NullSlot
    /\ LET tail == spsc_tail_
       IN  spsc_tail_' = spsc_next(tail)
    /\ slot_last' = SlotCall("commit_unacquired", NullSlot, NoValue, SpscQueue)
    /\ UNCHANGED <<spsc_head_, storage_, seq_ref, seq_count>>
    /\ SlotFrame

\* release_consumer_slot, lines 132-136, called although
\* try_acquire_consumer_slot has just returned null.
SpscReleaseAfterNull ==
    /\ seq_sut = "spsc"
    /\ slot_last.op = "acquire_consumer" /\ slot_last.slot = NullSlot
    /\ LET head == spsc_head_
       IN  spsc_head_' = spsc_next(head)
    /\ slot_last' = SlotCall("release_unacquired", NullSlot, NoValue, SpscQueue)
    /\ UNCHANGED <<spsc_tail_, storage_, seq_ref, seq_count>>
    /\ SlotFrame

SlotMisuseNext ==
    \/ SlotNext
    \/ SpscCommitAfterNull
    \/ SpscReleaseAfterNull

\* One thread using the slot interface, which may commit or release after
\* an acquire that returned null; it makes no further call after that.
SlotMisuseSpec == SlotInit /\ [][SlotMisuseNext]_vars

(***************************************************************************)
(* arena and numa_arena: whole calls made by one thread on two arena       *)
(* objects.  Pointers are addresses of the modelled width.                 *)
(***************************************************************************)
\* ~x on a word of the modelled width.
BitNot(x) == IndexMod - 1 - x

\* align_ptr, lines 10-15: (addr + (alignment - 1)) & ~(alignment - 1).
align_ptr(ptr, alignment) ==
    BitAnd(Wrap(ptr + Wrap(alignment - 1)), BitNot(Wrap(alignment - 1)))

\* arena::capacity, arena::used and arena::data, arena_allocator.hpp lines 27-31.
arena_capacity(a) == a.capacity_bytes_

arena_used(a) == Wrap(a.ptr_ - a.begin_)

arena_data(a) == a.begin_

\* arena(std::size_t), lines 19-26, on the buffer operator new returned
\* (NullPtr when the nothrow allocation failed).
arena_ctor(base, capacity_bytes) ==
    [state |-> "live",
     begin_ |-> base,
     end_ |-> IF base # NullPtr THEN Wrap(base + capacity_bytes) ELSE NullPtr,
     ptr_ |-> base,
     capacity_bytes_ |-> capacity_bytes,
     owns_memory_ |-> TRUE]

\* arena(void*, std::size_t), lines 28-35.
arena_ctor_buffer(buffer, capacity_bytes) ==
    [state |-> "live",
     begin_ |-> buffer,
     end_ |-> Wrap(buffer + capacity_bytes),
     ptr_ |-> buffer,
     capacity_bytes_ |-> capacity_bytes,
     owns_memory_ |-> FALSE]

\* A move that leaves its source as it was.
arena_not_cleared(a) == a

\* What a move leaves in its source, lines 45-47 and 62-64.
arena_moved_from(a) ==
    [a EXCEPT !.begin_ = NullPtr, !.end_ = NullPtr, !.ptr_ = NullPtr,
              !.capacity_bytes_ = 0, !.owns_memory_ = FALSE]

\* The value numa_arena's constructor leaves in node_, numa_arena.cpp lines
\* 23-59: linux tells whether the build defines __linux__, available is
\* ::numa_available() != -1, base and len are the inner arena's data() and
\* capacity(), mask_ok tells whether numa_allocate_nodemask returned a mask.
numa_arena_node(linux, available, preferred_node, base, len, mask_ok) ==
    IF linux
    THEN IF ~available \/ preferred_node < 0 THEN -1
         ELSE IF base = NullPtr \/ len = 0 THEN -1
         ELSE IF ~mask_ok THEN -1
         ELSE preferred_node
    ELSE preferred_node

\* The arguments the calls are made with.
ArenaCapacities == {0, ArenaMaxCapacity}

ArenaAlignments == {1, 8}

ArenaByteCounts(a) == {0, 3, arena_capacity(a), IndexMod - 4}

NumaNodes == {-1, 0, 1}

ArenaCall(op, o, other, bytes, alignment, ret) ==
    [op |-> op, obj |-> o, src |-> other, bytes |-> bytes, alignment |-> alignment,
     ret |-> ret, before |-> arenas[o], src_before |-> arenas[other]]

\* operator new hands out the next buffer, or fails.
HeapNew(new_ok) ==
    IF new_ok THEN HeapAddress(heap_count + 1) ELSE NullPtr

\* arena::arena(std::size_t capacity_bytes), lines 19-26.
ArenaCtor(o, capacity_bytes, new_ok) ==
    /\ arenas[o].state = "none"
    /\ heap_count < Cardinality(HeapAddresses)
    /\ arenas' = [arenas EXCEPT ![o] = arena_ctor(HeapNew(new_ok), capacity_bytes)]
    /\ heap_count' = IF new_ok THEN heap_count + 1 ELSE heap_count
    /\ arena_last' = ArenaCall("ctor", o, o, capacity_bytes, 1, HeapNew(new_ok))
    /\ UNCHANGED <<node_, numa_env, heap_deleted, arena_hist,
                   arena_allocs, arena_resets, arena_moves>>
    /\ UNCHANGED notArena

\* arena::arena(void* buffer, std::size_t capacity_bytes), lines 28-35.
ArenaCtorBuffer(o, buffer, capacity_bytes) ==
    /\ arenas[o].state = "none"
    /\ \A other \in ArenaObjects : arenas[other].begin_ # buffer
    /\ arenas' = [arenas EXCEPT ![o] = arena_ctor_buffer(buffer, capacity_bytes)]
    /\ arena_last' = ArenaCall("ctor_buffer", o, o, capacity_bytes, 1, buffer)
    /\ UNCHANGED <<node_, numa_env, heap_count, heap_deleted, arena_hist,
                   arena_allocs, arena_resets, arena_moves>>
    /\ UNCHANGED notArena

\* numa_arena::numa_arena, numa_arena.cpp lines 23-59: the inner arena is
\* built by arena(size_bytes); mbind changes no state of the program.
NumaArenaCtor(o, size_bytes, preferred_node, linux, available, new_ok, mask_ok) ==
    /\ arenas[o].state = "none"
    /\ heap_count < Cardinality(HeapAddresses)
    /\ linux \/ ~available
    /\ LET inner == arena_ctor(HeapNew(new_ok), size_bytes)
       IN  /\ arenas' = [arenas EXCEPT ![o] = inner]
           /\ node_' = [node_ EXCEPT ![o] =
                           numa_arena_node(linux, available, preferred_node,
                                           arena_data(inner), arena_capacity(inner),
                                           mask_ok)]
    /\ numa_env' = [numa_env EXCEPT ![o] =
                       [numa |-> TRUE, linux |-> linux, available |-> available,
                        preferred_node |-> preferred_node]]
    /\ heap_count' = IF new_ok THEN heap_count + 1 ELSE heap_count
    /\ arena_last' = ArenaCall("numa_ctor", o, o, size_bytes, 1, HeapNew(new_ok))
    /\ UNCHANGED <<heap_deleted, arena_hist, arena_allocs, arena_resets, arena_moves>>
    /\ UNCHANGED notArena

\* arena::allocate, lines 76-85, on the arena a: the pointer it returns and
\* the value it leaves in ptr_.  aligned + bytes is pointer arithmetic: when
\* it passes the top of the address space its behaviour is undefined, and
\* the build either compares the wrapped address with end_ (wrapped) or has
\* rearranged the comparison so that the request is seen not to fit.
arena_allocate(a, bytes, alignment, wrapped) ==
    LET aligned == align_ptr(a.ptr_, alignment)
        sum == IF wrapped THEN Wrap(aligned + bytes) ELSE aligned + bytes
    IN  IF a.begin_ = NullPtr THEN [ret |-> NullPtr, ptr_ |-> a.ptr_]
        ELSE IF sum > a.end_ THEN [ret |-> NullPtr, ptr_ |-> a.ptr_]
        ELSE [ret |-> aligned, ptr_ |-> Wrap(aligned + bytes)]

\* A call of arena::allocate.
ArenaAllocate(o, bytes, alignment, wrapped) ==
    /\ arenas[o].state = "live"
    /\ arena_allocs < ArenaMaxAllocs
    /\ wrapped \/ align_ptr(arenas[o].ptr_, alignment) + bytes >= IndexMod
    /\ LET r == arena_allocate(arenas[o], bytes, alignment, wrapped)
       IN  /\ arenas' = [arenas EXCEPT ![o].ptr_ = r.ptr_]
           /\ arena_hist' =
                 IF r.ret = NullPtr THEN arena_hist
                 ELSE [arena_hist EXCEPT ![o] =
                          Append(@, [p |-> r.ret, bytes |-> bytes,
                                     alignment |-> alignment])]
           /\ arena_last' = ArenaCall("allocate", o, o, bytes, alignment, r.ret)
    /\ arena_allocs' = arena_allocs + 1
    /\ UNCHANGED <<node_, numa_env, heap_count, heap_deleted, arena_resets, arena_moves>>
    /\ UNCHANGED notArena

\* A reset that leaves the bump pointer where it is.
ArenaResetKeepsPtr(o) ==
    /\ arenas[o].state = "live"
    /\ arena_resets < ArenaMaxResets
    /\ arena_hist' = [arena_hist EXCEPT ![o] = <<>>]
    /\ arena_last' = ArenaCall("reset", o, o, 0, 1, NullPtr)
    /\ arena_resets' = arena_resets + 1
    /\ UNCHANGED <<arenas, node_, numa_env, heap_count, heap_deleted,
                   arena_allocs, arena_moves>>
    /\ UNCHANGED notArena

\* arena::reset, lines 87-90.
ArenaReset(o) ==
    /\ arenas[o].state = "live"
    /\ arena_resets < ArenaMaxResets
    /\ arenas' = [arenas EXCEPT ![o].ptr_ = arenas[o].begin_]
    /\ arena_hist' = [arena_hist EXCEPT ![o] = <<>>]
    /\ arena_last' = ArenaCall("reset", o, o, 0, 1, NullPtr)
    /\ arena_resets' = arena_resets + 1
    /\ UNCHANGED <<node_, numa_env, heap_count, heap_deleted, arena_allocs, arena_moves>>
    /\ UNCHANGED notArena

\* arena::arena(arena&& other), lines 37-48.
ArenaMoveCtor(o, other) ==
    /\ o # other
    /\ arenas[o].state = "none"
    /\ arenas[other].state = "live"
    /\ arena_moves < ArenaMaxMoves
    /\ arenas' = [arenas EXCEPT ![o] = arenas[other],
                                ![other] = arena_moved_from(arenas[other])]
    /\ arena_hist' = [arena_hist EXCEPT ![o] = arena_hist[other], ![other] = <<>>]
    /\ arena_last' = ArenaCall("move_ctor", o, other, 0, 1, NullPtr)
    /\ arena_moves' = arena_moves + 1
    /\ UNCHANGED <<node_, numa_env, heap_count, heap_deleted, arena_allocs, arena_resets>>
    /\ UNCHANGED notArena

\* arena::operator=(arena&& other), lines 50-67.
ArenaMoveAssign(o, other) ==
    /\ arenas[o].state = "live"
    /\ arenas[other].state = "live"
    /\ arena_moves < ArenaMaxMoves
    /\ IF o # other
       THEN /\ heap_deleted' =
                  IF arenas[o].owns_memory_ /\ arenas[o].begin_ # NullPtr
                  THEN [heap_deleted EXCEPT ![arenas[o].begin_] = @ + 1]
                  ELSE heap_deleted
            /\ arenas' = [arenas EXCEPT ![o] = arenas[other],
                                        ![other] = arena_moved_from(arenas[other])]
            /\ arena_hist' = [arena_hist EXCEPT ![o] = arena_hist[other],
                                                ![other] = <<>>]
       ELSE UNCHANGED <<heap_deleted, arenas, arena_hist>>
    /\ arena_last' = ArenaCall("move_assign", o, other, 0, 1, NullPtr)
    /\ arena_moves' = arena_moves + 1
    /\ UNCHANGED <<node_, numa_env, heap_count, arena_allocs, arena_resets>>
    /\ UNCHANGED notArena

\* arena::~arena, lines 69-74.
ArenaDtor(o) ==
    /\ arenas[o].state = "live"
    /\ heap_deleted' =
          IF arenas[o].owns_memory_ /\ arenas[o].begin_ # NullPtr
          THEN [heap_deleted EXCEPT ![arenas[o].begin_] = @ + 1]
          ELSE heap_deleted
    /\ arenas' = [arenas EXCEPT ![o].state = "destroyed"]
    /\ arena_hist' = [arena_hist EXCEPT ![o] = <<>>]
    /\ arena_last' = ArenaCall("dtor", o, o, 0, 1, NullPtr)
    /\ UNCHANGED <<node_, numa_env, heap_count, arena_allocs, arena_resets, arena_moves>>
    /\ UNCHANGED notArena

ArenaInit ==
    /\ ArenaParked /\ PoolParked /\ ShmParked
    /\ CtorParked /\ BatchParked /\ SlotParked /\ ObserverParked
    /\ SpscCtor(0) /\ SpscThreadsIdle
    /\ MpmcCtor(0) /\ MpmcThreadsIdle
    /\ SeqParked
    /\ LockCtor

ArenaNext ==
    \/ \E capacity_bytes \in ArenaCapacities, new_ok \in BOOLEAN :
          ArenaCtor("a", capacity_bytes, new_ok)
    \/ \E buffer \in CallerBuffers, capacity_bytes \in ArenaCapacities :
          ArenaCtorBuffer("a", buffer, capacity_bytes)
    \/ \E size_bytes \in ArenaCapacities, preferred_node \in NumaNodes,
          linux \in BOOLEAN, available \in BOOLEAN,
          new_ok \in BOOLEAN, mask_ok \in BOOLEAN :
          NumaArenaCtor("a", size_bytes, preferred_node, linux, available,
                        new_ok, mask_ok)
    \/ \E bytes \in ArenaByteCounts(arenas["a"]), alignment \in ArenaAlignments,
          wrapped \in BOOLEAN :
          ArenaAllocate("a", bytes, alignment, wrapped)
    \/ ArenaReset("a")
    \/ ArenaDtor("a")

\* One thread making whole calls on one arena, built as an arena or as the
\* inner arena of a numa_arena, which forwards allocate and reset to it
\* (numa_arena.hpp lines 28-33).
ArenaSpec == ArenaInit /\ [][ArenaNext]_vars

\* The requests made of the arenas that are moved: they only advance the
\* bump pointer.
MovedByteCounts == {3}

MovedAlignments == {1}

ArenaMoveNext ==
    \E o \in ArenaObjects :
        \/ \E capacity_bytes \in ArenaCapacities, new_ok \in BOOLEAN :
              ArenaCtor(o, capacity_bytes, new_ok)
        \/ \E buffer \in CallerBuffers, capacity_bytes \in ArenaCapacities :
              ArenaCtorBuffer(o, buffer, capacity_bytes)
        \/ \E bytes \in MovedByteCounts, alignment \in MovedAlignments :
              ArenaAllocate(o, bytes, alignment, TRUE)
        \/ ArenaReset(o)
        \/ \E other \in ArenaObjects : ArenaMoveCtor(o, other)
        \/ \E other \in ArenaObjects : ArenaMoveAssign(o, other)
        \/ ArenaDtor(o)

\* One thread constructing, moving and destroying two arenas.
ArenaMoveSpec == ArenaInit /\ [][ArenaMoveNext]_vars

(***************************************************************************)
(* fixed_pool and numa_pool: whole calls made by one thread on one pool.   *)
(* A block is known by its address; pool_mem holds the first word of each  *)
(* block, which is node::next while the block is on the free list.         *)
(***************************************************************************)
\* sizeof(fixed_pool::node), one pointer.
sizeof_node == 8

\* The blocks of the pool: storage_ + i * element_size_.
PoolBlock(i) == pool_storage_ + i * element_size_

PoolBlocks == {PoolBlock(i) : i \in 0 .. (element_count_ - 1)}

\* The loop of the constructor, lines 21-25, from block i on: mem is the
\* memory and head the free_list_ it has built so far.
RECURSIVE fixed_pool_thread(_, _, _)
fixed_pool_thread(i, mem, head) ==
    IF i >= element_count_ THEN [mem |-> mem, free_list_ |-> head]
    ELSE fixed_pool_thread(i + 1, [mem EXCEPT ![PoolBlock(i)] = head], PoolBlock(i))

\* A constructor whose loop starts at block 1.
FixedPoolCtorSkipsFirst(element_size, element_count, base) ==
    /\ element_size_ = IF element_size < sizeof_node THEN sizeof_node ELSE element_size
    /\ element_count_ = element_count
    /\ IF element_count_ = 0
       THEN /\ pool_storage_ = NullPtr
            /\ free_list_ = NullPtr
            /\ pool_mem = <<>>
       ELSE /\ pool_storage_ = base
            /\ LET built == fixed_pool_thread(1, [b \in PoolBlocks |-> NullPtr], NullPtr)
               IN  /\ pool_mem = built.mem
                   /\ free_list_ = built.free_list_

\* fixed_pool::fixed_pool, lines 8-26, on the buffer operator new returned.
FixedPoolCtor(element_size, element_count, base) ==
    /\ element_size_ = IF element_size < sizeof_node THEN sizeof_node ELSE element_size
    /\ element_count_ = element_count
    /\ IF element_count_ = 0
       THEN /\ pool_storage_ = NullPtr
            /\ free_list_ = NullPtr
            /\ pool_mem = <<>>
       ELSE /\ pool_storage_ = base
            /\ LET built == fixed_pool_thread(0, [b \in PoolBlocks |-> NullPtr], NullPtr)
               IN  /\ pool_mem = built.mem
                   /\ free_list_ = built.free_list_

\* numa_pool<T>::numa_pool, numa_pool.hpp lines 17-21: arena_ is built
\* first, by numa_arena(capacity * sizeof(T), preferred_node), then pool_ by
\* fixed_pool(sizeof(T), capacity), which asks operator new for its own
\* storage.
NumaPoolCtor(capacity, sizeof_T, preferred_node, linux, new_ok) ==
    LET inner == arena_ctor(IF new_ok THEN HeapAddress(1) ELSE NullPtr,
                            Wrap(capacity * sizeof_T))
    IN  /\ arenas = [o \in ArenaObjects |-> IF o = "a" THEN inner ELSE NoArena]
        /\ node_ = [o \in ArenaObjects |->
                       IF o = "a"
                       THEN numa_arena_node(linux, linux, preferred_node,
                                            arena_data(inner), arena_capacity(inner),
                                            TRUE)
                       ELSE -1]
        /\ numa_env = [o \in ArenaObjects |->
                          IF o = "a"
                          THEN [numa |-> TRUE, linux |-> linux, available |-> linux,
                                preferred_node |-> preferred_node]
                          ELSE NoNuma]
        /\ heap_count = IF new_ok THEN 2 ELSE 1
        /\ FixedPoolCtor(sizeof_T, capacity, HeapAddress(heap_count))

\* The element sizes the pools are built with: sizeof(int) and a larger one.
ElementSizes == {4, 16}

PoolLive == pool_kind \in {"fixed_pool", "numa_pool"}

\* An allocate that unlinks the head and returns its successor.
PoolAllocateReturnsNext ==
    /\ PoolLive
    /\ pool_calls < PoolMaxCalls
    /\ LET n == free_list_
           ret == IF n = NullPtr THEN NullPtr ELSE pool_mem[n]
       IN  /\ free_list_' = ret
           /\ pool_outstanding' =
                 IF ret = NullPtr THEN pool_outstanding ELSE pool_outstanding \cup {ret}
           /\ pool_run' = IF pool_run >= 0 THEN pool_run + 1 ELSE pool_run
           /\ pool_last' = [op |-> "allocate", arg |-> NullPtr, ret |-> ret,
                            run |-> pool_run', outstanding |-> pool_outstanding]
    /\ pool_prev' = pool_last
    /\ pool_calls' = pool_calls + 1
    /\ UNCHANGED <<pool_kind, element_size_, element_count_, pool_storage_, pool_mem>>
    /\ UNCHANGED <<notPool, arenaVars>>

\* fixed_pool::allocate, lines 33-41 (numa_pool::allocate forwards to it,
\* numa_pool.hpp line 29).
PoolAllocate ==
    /\ PoolLive
    /\ pool_calls < PoolMaxCalls
    /\ LET n == free_list_
       IN  /\ free_list_' = IF n = NullPtr THEN NullPtr ELSE pool_mem[n]
           /\ pool_outstanding' =
                 IF n = NullPtr THEN pool_outstanding ELSE pool_outstanding \cup {n}
           /\ pool_run' = IF pool_run >= 0 THEN pool_run + 1 ELSE pool_run
           /\ pool_last' = [op |-> "allocate", arg |-> NullPtr, ret |-> n,
                            run |-> pool_run', outstanding |-> pool_outstanding]
    /\ pool_prev' = pool_last
    /\ pool_calls' = pool_calls + 1
    /\ UNCHANGED <<pool_kind, element_size_, element_count_, pool_storage_, pool_mem>>
    /\ UNCHANGED <<notPool, arenaVars>>

\* A deallocate that makes the block the head without linking it to the list.
PoolDeallocateNoLink(p) ==
    /\ PoolLive
    /\ pool_calls < PoolMaxCalls
    /\ p \in pool_outstanding \cup {NullPtr}
    /\ IF p = NullPtr
       THEN UNCHANGED <<free_list_, pool_outstanding, pool_run>>
       ELSE /\ free_list_' = p
            /\ pool_outstanding' = pool_outstanding \ {p}
            /\ pool_run' = -1
    /\ pool_last' = [op |-> "deallocate", arg |-> p, ret |-> NullPtr,
                     run |-> pool_run', outstanding |-> pool_outstanding]
    /\ pool_prev' = pool_last
    /\ pool_calls' = pool_calls + 1
    /\ UNCHANGED <<pool_kind, element_size_, element_count_, pool_storage_, pool_mem>>
    /\ UNCHANGED <<notPool, arenaVars>>

\* fixed_pool::deallocate, lines 43-49 (numa_pool::deallocate forwards to
\* it, numa_pool.hpp line 31), given nullptr or a block that is handed out.
PoolDeallocate(p) ==
    /\ PoolLive
    /\ pool_calls < PoolMaxCalls
    /\ p \in pool_outstanding \cup {NullPtr}
    /\ IF p = NullPtr
       THEN UNCHANGED <<pool_mem, free_list_, pool_outstanding, pool_run>>
       ELSE /\ pool_mem' = [pool_mem EXCEPT ![p] = free_list_]
            /\ free_list_' = p
            /\ pool_outstanding' = pool_outstanding \ {p}
            /\ pool_run' = -1
    /\ pool_last' = [op |-> "deallocate", arg |-> p, ret |-> NullPtr,
                     run |-> pool_run', outstanding |-> pool_outstanding]
    /\ pool_prev' = pool_last
    /\ pool_calls' = pool_calls + 1
    /\ UNCHANGED <<pool_kind, element_size_, element_count_, pool_storage_>>
    /\ UNCHANGED <<notPool, arenaVars>>

\* The caller stores its object in a block it holds, which overwrites the
\* word the free list used (here with the block's own address).
PoolUserWrite(p) ==
    /\ PoolLive
    /\ p \in pool_outstanding
    /\ pool_mem[p] # p
    /\ pool_mem' = [pool_mem EXCEPT ![p] = p]
    /\ UNCHANGED <<pool_kind, element_size_, element_count_, pool_storage_, free_list_,
                   pool_outstanding, pool_last, pool_prev, pool_run, pool_calls>>
    /\ UNCHANGED <<notPool, arenaVars>>

\* fixed_pool::~fixed_pool, lines 28-31, followed in a numa_pool by the
\* destructor of arena_.
PoolDtor ==
    /\ PoolLive
    /\ pool_kind' = "destroyed"
    /\ LET inner == arenas["a"]
           freed == (IF pool_storage_ # NullPtr THEN {pool_storage_} ELSE {})
                    \cup (IF /\ pool_kind = "numa_pool"
                             /\ inner.owns_memory_ /\ inner.begin_ # NullPtr
                          THEN {inner.begin_} ELSE {})
       IN  /\ heap_deleted' = [b \in DOMAIN heap_deleted |->
                                  IF b \in freed THEN heap_deleted[b] + 1
                                  ELSE heap_deleted[b]]
           /\ arenas' = IF pool_kind = "numa_pool"
                        THEN [arenas EXCEPT !["a"].state = "destroyed"]
                        ELSE arenas
    /\ UNCHANGED <<element_size_, element_count_, pool_storage_, free_list_, pool_mem,
                   pool_outstanding, pool_last, pool_prev, pool_run, pool_calls>>
    /\ UNCHANGED <<node_, numa_env, heap_count, arena_hist, arena_last,
                   arena_allocs, arena_resets, arena_moves>>
    /\ UNCHANGED notPool

PoolInit ==
    /\ \/ /\ pool_kind = "fixed_pool"
          /\ arenas = [o \in ArenaObjects |-> NoArena]
          /\ node_ = [o \in ArenaObjects |-> -1]
          /\ numa_env = [o \in ArenaObjects |-> NoNuma]
          /\ heap_count = 1
          /\ \E element_size \in ElementSizes, element_count \in 0 .. PoolMaxCount :
                FixedPoolCtor(element_size, element_count, HeapAddress(1))
       \/ /\ pool_kind = "numa_pool"
          /\ \E capacity \in 0 .. PoolMaxCount, sizeof_T \in ElementSizes,
                preferred_node \in NumaNodes, linux \in BOOLEAN, new_ok \in BOOLEAN :
                NumaPoolCtor(capacity, sizeof_T, preferred_node, linux, new_ok)
    /\ ArenaHarnessInit
    /\ PoolHarnessInit
    /\ ShmParked /\ CtorParked /\ BatchParked /\ SlotParked /\ ObserverParked
    /\ SpscCtor(0) /\ SpscThreadsIdle
    /\ MpmcCtor(0) /\ MpmcThreadsIdle
    /\ SeqParked
    /\ LockCtor

PoolNext ==
    \/ PoolAllocate
    \/ \E p \in pool_outstanding \cup {NullPtr} : PoolDeallocate(p)
    \/ \E p \in pool_outstanding : PoolUserWrite(p)
    \/ PoolDtor

\* One thread making whole calls on one fixed_pool or numa_pool.
PoolSpec == PoolInit /\ [][PoolNext]_vars

(***************************************************************************)
(* shm_region and shm_spsc_ring_buffer<T>                                  *)
(* (include/hpc/ipc/shm_ring_buffer.hpp, src/ipc/shm_ring_buffer.cpp).     *)
(* Every call is one step; shm_open, ftruncate and mmap fail only as the   *)
(* flags of shm_open prescribe (ENOENT without O_CREAT).                   *)
(***************************************************************************)
\* The capacities the processes configure; try_push divides by the capacity.
ShmCapacities == 1 .. ShmMaxCapacity

ShmCall(op, q, create, ok, val, before) ==
    [op |-> op, process |-> q, create |-> create, ok |-> ok, val |-> val,
     before |-> before]

\* The regions shm_open has created so far.
ShmCreated == {r \in DOMAIN shm_regions : shm_regions[r].slots > 0}

\* The region the name refers to (NoRegion when the name is not linked).
ShmNamed == IF shm_name = 0 THEN NoRegion ELSE shm_regions[shm_name]

\* The region process q has mapped.
ShmMapped(q) == shm_regions[shm_procs[q].region]

ShmRingOpen(q) == shm_procs[q].state = "open"

\* The constructor's header writes, lines 76-78, on the mapped region; an
\* object that shm_open has just created is zero-filled and ftruncate gives
\* it its size.
shm_header_written(region, capacity) ==
    [region EXCEPT !.slots = capacity,
                   !.header = [capacity |-> capacity, head |-> 0, tail |-> 0]]

\* shm_spsc_ring_buffer::shm_spsc_ring_buffer, lines 65-81, with
\* shm_region::shm_region, lines 14-43, for its region_ member.
ShmCtor(q, create) ==
    /\ shm_procs[q].state = "none"
    /\ LET exists == shm_name # 0
           fresh == Cardinality(ShmCreated) + 1
           \* shm_open, lines 17-22: O_CREAT | O_EXCL makes a new object, and
           \* on EEXIST the existing one is opened; without O_CREAT the name
           \* must exist.
           opened == IF exists THEN shm_name ELSE IF create THEN fresh ELSE 0
       IN  IF opened = 0
           THEN \* lines 23-25: throws, no object is constructed
                /\ shm_procs' = [shm_procs EXCEPT ![q].state = "failed"]
                /\ shm_last' = ShmCall("ctor", q, create, FALSE, NoValue, NoRegion)
                /\ shm_ref' = shm_ref
                /\ UNCHANGED <<shm_regions, shm_name>>
           ELSE /\ opened \in DOMAIN shm_regions
                /\ shm_name' = opened
                \* lines 30-36: ftruncate and owner_ whenever create is set
                /\ shm_procs' = [shm_procs EXCEPT
                                    ![q] = [state |-> "open", region |-> opened,
                                            owner_ |-> create]]
                /\ shm_regions' = [shm_regions EXCEPT
                                      ![opened] = shm_header_written(@, shm_capacity)]
                /\ shm_last' = ShmCall("ctor", q, create, TRUE, NoValue, ShmNamed)
                /\ shm_ref' = <<>>
    /\ shm_ref_prev' = shm_ref
    /\ UNCHANGED <<shm_capacity, shm_count>>
    /\ UNCHANGED notShm

\* try_push with a fullness test that does not reduce tail + 1 modulo the
\* capacity.
ShmTryPushNoWrap(q) ==
    /\ ShmRingOpen(q)
    /\ shm_count < ShmMaxPush
    /\ LET r == shm_procs[q].region
           region == shm_regions[r]
           cap == region.header.capacity
           tail == region.header.tail
           head == region.header.head
           value == shm_count + 1
       IN  /\ shm_count' = shm_count + 1
           /\ IF (tail + 1) = head
              THEN /\ shm_last' = ShmCall("push", q, FALSE, FALSE, value, region)
                   /\ shm_ref' = shm_ref
                   /\ UNCHANGED shm_regions
              ELSE /\ shm_regions' = [shm_regions EXCEPT
                                         ![r].data[tail] = value,
                                         ![r].header.tail = (tail + 1) % cap]
                   /\ shm_last' = ShmCall("push", q, FALSE, TRUE, value, region)
                   /\ shm_ref' = Append(shm_ref, value)
    /\ shm_ref_prev' = shm_ref
    /\ UNCHANGED <<shm_name, shm_capacity, shm_procs>>
    /\ UNCHANGED notShm

\* shm_spsc_ring_buffer::try_push, lines 83-95.
ShmTryPush(q) ==
    /\ ShmRingOpen(q)
    /\ shm_count < ShmMaxPush
    /\ LET r == shm_procs[q].region
           region == shm_regions[r]
           cap == region.header.capacity
           tail == region.header.tail
           head == region.header.head
           value == shm_count + 1
       IN  /\ shm_count' = shm_count + 1
           /\ IF ((tail + 1) % cap) = head
              THEN /\ shm_last' = ShmCall("push", q, FALSE, FALSE, value, region)
                   /\ shm_ref' = shm_ref
                   /\ UNCHANGED shm_regions
              ELSE /\ shm_regions' = [shm_regions EXCEPT
                                         ![r].data[tail] = value,
                                         ![r].header.tail = (tail + 1) % cap]
                   /\ shm_last' = ShmCall("push", q, FALSE, TRUE, value, region)
                   /\ shm_ref' = Append(shm_ref, value)
    /\ shm_ref_prev' = shm_ref
    /\ UNCHANGED <<shm_name, shm_capacity, shm_procs>>
    /\ UNCHANGED notShm

\* shm_spsc_ring_buffer::try_pop, lines 97-109.
ShmTryPop(q) ==
    /\ ShmRingOpen(q)
    /\ LET r == shm_procs[q].region
           region == shm_regions[r]
           cap == region.header.capacity
           head == region.header.head
           tail == region.header.tail
       IN  IF head = tail
           THEN /\ shm_last' = ShmCall("pop", q, FALSE, FALSE, NoValue, region)
                /\ shm_ref' = shm_ref
                /\ UNCHANGED shm_regions
           ELSE /\ shm_regions' = [shm_regions EXCEPT
                                      ![r].header.head = (head + 1) % cap]
                /\ shm_last' = ShmCall("pop", q, FALSE, TRUE, region.data[head], region)
                /\ shm_ref' = IF shm_ref = <<>> THEN <<>> ELSE Tail(shm_ref)
    /\ shm_ref_prev' = shm_ref
    /\ UNCHANGED <<shm_name, shm_capacity, shm_procs, shm_count>>
    /\ UNCHANGED notShm

\* shm_region::~shm_region, lines 45-56: the owner unlinks the name, whatever
\* object it is linked to by then.
ShmDtor(q) ==
    /\ ShmRingOpen(q)
    /\ shm_procs' = [shm_procs EXCEPT ![q].state = "closed"]
    /\ shm_name' = IF shm_procs[q].owner_ THEN 0 ELSE shm_name
    /\ shm_last' = ShmCall("dtor", q, FALSE, TRUE, NoValue, ShmMapped(q))
    /\ shm_ref_prev' = shm_ref
    /\ UNCHANGED <<shm_regions, shm_capacity, shm_count, shm_ref>>
    /\ UNCHANGED notShm

ShmInit ==
    /\ shm_regions = [r \in 1 .. Cardinality(ShmProcesses) |-> NoRegion]
    /\ shm_name = 0
    /\ shm_capacity \in ShmCapacities
    /\ shm_procs = [q \in ShmProcesses |-> NoRing]
    /\ shm_last = NoShmCall
    /\ shm_count = 0
    /\ shm_ref = <<>>
    /\ shm_ref_prev = <<>>
    /\ ArenaParked /\ PoolParked /\ CtorParked /\ BatchParked /\ SlotParked /\ ObserverParked
    /\ SpscCtor(0) /\ SpscThreadsIdle
    /\ MpmcCtor(0) /\ MpmcThreadsIdle
    /\ SeqParked
    /\ LockCtor

ShmNext ==
    \/ \E q \in ShmProcesses, create \in BOOLEAN : ShmCtor(q, create)
    \/ \E q \in ShmProcesses : ShmTryPush(q)
    \/ \E q \in ShmProcesses : ShmTryPop(q)
    \/ \E q \in ShmProcesses : ShmDtor(q)

\* Two processes that construct their ring over the same name, push and pop
\* in whole calls, and destroy it.
ShmSpec == ShmInit /\ [][ShmNext]_vars

(***************************************************************************)
(* The claims.                                                             *)
(***************************************************************************)
IsPrefix(s, t) == Len(s) <= Len(t) /\ \A i \in 1 .. Len(s) : s[i] = t[i]

\* C1: the successful pops return the successfully pushed values in push
\* order, none lost, duplicated or overwritten: the popped sequence is a
\* prefix of the pushed sequence, and is all of it once both threads are
\* idle and the queue reports empty.
SpscFifo ==
    /\ IsPrefix(spsc_popped, spsc_pushed)
    /\ (p_pc = "idle" /\ c_pc = "idle" /\ spsc_empty) => spsc_popped = spsc_pushed

SeqPushed == seq_last.op = "push"

SeqPopped == seq_last.op = "pop"

\* C2: try_push fails, and full() is true, exactly when the SPSC queue holds
\* capacity() unconsumed elements, and it never holds more.
SpscFullIffCapacity ==
    seq_sut = "spsc" =>
        /\ Len(seq_ref) <= spsc_capacity
        /\ SeqPushed => (~seq_last.ok <=> seq_last.size = spsc_capacity)
        /\ seq_obs.op = "full" => (seq_obs.res <=> seq_obs.size = spsc_capacity)

\* C3: on a freshly constructed SPSC queue whose consumer has made no call,
\* a try_push succeeds exactly while fewer than capacity() pushes have
\* succeeded: capacity() pushes return true and the next returns false.
SpscFreshRejectsAfterCapacity ==
    (seq_sut = "spsc" /\ ~seq_popped /\ SeqPushed) =>
        (seq_last.ok <=> seq_last.run < spsc_capacity)

SpscFreshRejectsAfterCapacityWitness ==
    /\ seq_sut = "spsc" /\ ~seq_popped /\ SeqPushed
    /\ storage_capacity_ = 4 /\ ~seq_last.ok /\ seq_last.run = 3
    /\ seq_prev.op = "push" /\ seq_prev.ok

\* C6: from a quiescent empty MPMC queue and with no try_pop in between, a
\* try_push succeeds exactly while fewer than capacity() pushes have
\* succeeded since the queue was empty.
MpmcRejectsAfterCapacity ==
    (seq_sut = "mpmc" /\ SeqPushed /\ seq_last.run >= 0) =>
        (seq_last.ok <=> seq_last.run < mpmc_capacity_)

MpmcRejectsAfterCapacityWitness ==
    /\ seq_sut = "mpmc" /\ SeqPushed /\ ~seq_last.ok
    /\ seq_last.run = mpmc_capacity_
    /\ mpmc_head_ > mpmc_capacity_

\* C7: called sequentially, the MPMC queue answers as a bounded FIFO queue
\* of capacity N: a push fails iff N elements are held, a pop fails iff none
\* is held and otherwise returns the oldest, empty() and full() tell whether
\* 0 or N elements are held and approximate_size() is their number.
MpmcRefinesBoundedFifo ==
    seq_sut = "mpmc" =>
        /\ Len(seq_ref) <= mpmc_capacity_
        /\ SeqPushed => (seq_last.ok <=> seq_last.size < mpmc_capacity_)
        /\ SeqPopped => /\ seq_last.ok <=> seq_last.size > 0
                        /\ seq_last.ok => seq_last.val = seq_last.oldest
        /\ seq_obs.op = "empty" => (seq_obs.res <=> seq_obs.size = 0)
        /\ seq_obs.op = "full" => (seq_obs.res <=> seq_obs.size = mpmc_capacity_)
        /\ seq_obs.op = "approximate_size" => seq_obs.res = seq_obs.size

MpmcRefinesBoundedFifoWitness ==
    /\ seq_sut = "mpmc" /\ SeqPopped /\ seq_last.ok
    /\ mpmc_tail_ >= 3 * mpmc_capacity_
    /\ seq_prev.op = "push" /\ ~seq_prev.ok

\* C8 as stated: on a queue that is not full, try_push(v) immediately
\* followed by try_pop(out) yields out == v.
RoundTripOnNonFull ==
    (SeqPopped /\ seq_prev.op = "push" /\ ~seq_prev.full) =>
        (seq_last.ok /\ seq_last.val = seq_prev.val)

\* C8 amended: on a queue that is empty, try_push(v) succeeds and the
\* try_pop(out) that immediately follows it succeeds with out == v.
RoundTripOnEmpty ==
    (SeqPopped /\ seq_prev.op = "push" /\ seq_prev.empty) =>
        (seq_prev.ok /\ seq_last.ok /\ seq_last.val = seq_prev.val)

RoundTripOnEmptyWitness ==
    /\ SeqPopped /\ seq_prev.op = "push" /\ seq_prev.empty
    /\ seq_sut = "spsc" /\ seq_count > storage_capacity_

MpmcQuiescent == \A t \in MpmcThreads : m_pc[t] = "idle"

\* C4: every value whose try_push returned true is returned by exactly one
\* try_pop (at most one at any time, exactly one once the queue is drained
\* and no call is running), and a try_pop returns only values that were
\* pushed.
MpmcExactlyOnce ==
    /\ \A v \in DOMAIN m_popcount :
          /\ m_popcount[v] <= 1
          /\ m_popcount[v] = 1 => v \in m_pushed
    /\ (MpmcQuiescent /\ mpmc_empty) => \A v \in m_pushed : m_popcount[v] = 1

MpmcExactlyOnceWitness ==
    /\ MpmcQuiescent /\ mpmc_empty
    /\ Cardinality(m_pushed) >= 3
    /\ \A v \in m_pushed : m_popcount[v] = 1
    /\ m_claimed[0] = 2

\* C5: the consumer that advanced head from h to h+1 moves out the value of
\* the producer that advanced tail from h to h+1.
MpmcOrderByClaimedIndex ==
    \A pair \in m_taken : pair[2] # NoValue /\ pair[2] = m_claimed[pair[1]]

MpmcOrderByClaimedIndexWitness ==
    /\ \E pair \in m_taken : pair[1] >= mpmc_capacity_
    /\ m_claimed[0] = 2 /\ m_claimed[1] = 1

LockAllDone == \A t \in LockThreads : l_pc[t] = "idle" /\ l_done[t] = LockIters

\* C9: at most one thread is between its return from lock() or successful
\* try_lock() and its unlock(), and when every thread has made its
\* increments under the lock the counter is their total number.
LockMutualExclusion ==
    /\ Cardinality({t \in LockThreads : InCritical(t)}) <= 1
    /\ LockAllDone => counter = Cardinality(LockThreads) * LockIters

LockMutualExclusionWitness ==
    /\ LockAllDone
    /\ counter = Cardinality(LockThreads) * LockIters
    /\ l_tries = LockMaxTries /\ l_last.ret

\* C10: a try_lock call is one compare-exchange: if the flag was false it
\* sets it and returns true as the holder; if the flag was true it returns
\* false at once and changes neither the flag nor any thread's position.
TryLockSingleCas ==
    [][l_tries' # l_tries =>
          LET t == l_last'.thread
          IN  /\ l_pc[t] = "idle"
              /\ IF flag_ = FALSE
                 THEN flag_' = TRUE /\ l_last'.ret /\ l_pc'[t] = "cs_read"
                 ELSE flag_' = TRUE /\ ~l_last'.ret /\ l_pc' = l_pc]_vars

TryLockSingleCasWitness ==
    /\ l_tries > 0 /\ ~l_last.ret /\ l_pc[l_last.thread] = "idle"
    /\ \E t \in LockThreads : InCritical(t)

(***************************************************************************)
(* The allocators.                                                         *)
(***************************************************************************)
\* C11: the non-null results of allocate since the last reset are aligned
\* as requested, lie inside [begin, end], do not overlap, each later one at
\* or above the end of every earlier one (so at a higher address than every
\* earlier non-empty one), and begin <= ptr <= end.
ArenaAllocationSafety ==
    \A o \in ArenaObjects :
        LET a == arenas[o]
            h == arena_hist[o]
        IN  (a.state = "live" /\ a.begin_ # NullPtr) =>
               /\ a.begin_ <= a.ptr_ /\ a.ptr_ <= a.end_
               /\ \A i \in 1 .. Len(h) :
                     /\ h[i].p % h[i].alignment = 0
                     /\ a.begin_ <= h[i].p
                     /\ h[i].p + h[i].bytes <= a.end_
               /\ \A i, j \in 1 .. Len(h) :
                     i < j => /\ h[i].p + h[i].bytes <= h[j].p
                              /\ h[i].p < h[j].p \/ h[i].bytes = 0

\* C12: on an arena that holds a buffer, allocate returns null exactly when
\* the aligned start plus bytes exceeds end, and a call that returns null
\* leaves the arena as it was.
ArenaNullIffExhausted ==
    (arena_last.op = "allocate" /\ arena_last.before.begin_ # NullPtr) =>
        LET aligned == align_ptr(arena_last.before.ptr_, arena_last.alignment)
        IN  /\ (arena_last.ret = NullPtr) <=>
                   (aligned + arena_last.bytes > arena_last.before.end_)
            /\ arena_last.ret = NullPtr =>
                   /\ arenas[arena_last.obj] = arena_last.before
                   /\ arena_used(arenas[arena_last.obj]) = arena_used(arena_last.before)

\* C13: reset leaves used() at 0 and begin, end, capacity() and the
\* ownership flag as they were; on an arena that holds a buffer, whatever
\* was allocated before the reset, allocate(capacity(), 1) then returns
\* data().
ArenaResetRewinds ==
    arena_last.op = "reset" =>
        LET a == arenas[arena_last.obj]
            b == arena_last.before
        IN  /\ arena_used(a) = 0
            /\ a.begin_ = b.begin_ /\ a.end_ = b.end_
            /\ arena_capacity(a) = arena_capacity(b)
            /\ a.owns_memory_ = b.owns_memory_
            /\ arena_data(a) # NullPtr =>
                  \A wrapped \in BOOLEAN :
                      arena_allocate(a, arena_capacity(a), 1, wrapped).ret = arena_data(a)

\* A reset of an arena that holds a buffer of which a part was allocated.
ArenaResetRewindsWitness ==
    /\ arena_last.op = "reset"
    /\ arena_data(arenas[arena_last.obj]) # NullPtr
    /\ arena_capacity(arenas[arena_last.obj]) > 0
    /\ arena_used(arena_last.before) > 0
    /\ arena_allocs >= 2

\* C14: after a move between two arenas the source is inert (capacity() and
\* used() are 0, it owns nothing, allocate returns null) and the
\* destination holds the source's buffer, bump position and ownership flag;
\* every buffer operator new handed out is either owned by exactly one
\* live arena and not released, or owned by none and released exactly
\* once; a caller-supplied buffer is never released.
ArenaMoveTransfers ==
    /\ (arena_last.op \in {"move_ctor", "move_assign"} /\ arena_last.obj # arena_last.src) =>
          LET source == arenas[arena_last.src]
              dest == arenas[arena_last.obj]
              was == arena_last.src_before
          IN  /\ arena_capacity(source) = 0 /\ arena_used(source) = 0
              /\ ~source.owns_memory_
              /\ arena_data(source) = NullPtr
              /\ \A bytes \in ArenaByteCounts(source) \cup MovedByteCounts,
                    alignment \in ArenaAlignments, wrapped \in BOOLEAN :
                    arena_allocate(source, bytes, alignment, wrapped).ret = NullPtr
              /\ dest.begin_ = was.begin_ /\ dest.end_ = was.end_
              /\ dest.ptr_ = was.ptr_
              /\ dest.capacity_bytes_ = was.capacity_bytes_
              /\ dest.owns_memory_ = was.owns_memory_
    /\ \A b \in CallerBuffers : heap_deleted[b] = 0
    /\ \A k \in 1 .. Cardinality(HeapAddresses) :
          LET owners == {o \in ArenaObjects :
                            /\ arenas[o].state = "live"
                            /\ arenas[o].owns_memory_
                            /\ arenas[o].begin_ = HeapAddress(k)}
          IN  heap_deleted[HeapAddress(k)] + Cardinality(owners)
                 = IF k <= heap_count THEN 1 ELSE 0

\* A move assignment that released the destination's own buffer and took
\* over a partly used buffer, after which the destination was destroyed.
ArenaMoveTransfersWitness ==
    /\ arena_last.op = "dtor"
    /\ arena_moves > 0
    /\ arena_last.before.ptr_ # arena_last.before.begin_
    /\ \A k \in 1 .. Cardinality(HeapAddresses) : heap_deleted[HeapAddress(k)] = 1
    /\ \E o \in ArenaObjects : arenas[o].state = "live" /\ arena_data(arenas[o]) = NullPtr

\* C15: allocate returns null exactly when every block is handed out; the
\* first element_count_ allocate calls on a fresh pool return a block and
\* the next one returns null; an allocate that follows the deallocate of a
\* block returns a block.
PoolExhaustion ==
    pool_last.op = "allocate" =>
        /\ (pool_last.ret = NullPtr) <=> (pool_last.outstanding = PoolBlocks)
        /\ (pool_last.run >= 1 /\ pool_last.run <= element_count_) =>
               pool_last.ret # NullPtr
        /\ pool_last.run = element_count_ + 1 => pool_last.ret = NullPtr
        /\ (pool_prev.op = "deallocate" /\ pool_prev.arg # NullPtr) =>
               pool_last.ret # NullPtr

\* The allocate after the last block of a fresh pool was handed out.
PoolExhaustionWitness ==
    /\ pool_last.op = "allocate"
    /\ element_count_ >= 3
    /\ pool_last.run = element_count_ + 1
    /\ pool_last.ret = NullPtr
    /\ pool_prev.op = "allocate" /\ pool_prev.ret # NullPtr

\* The blocks on the free list, from the block n on, following at most
\* fuel links.
RECURSIVE FreeListFrom(_, _)
FreeListFrom(n, fuel) ==
    IF n = NullPtr \/ fuel = 0 THEN <<>>
    ELSE <<n>> \o FreeListFrom(pool_mem[n], fuel - 1)

\* C16: the free list ends after at most element_count_ blocks and holds no
\* block twice (it is acyclic), it is disjoint from the blocks handed out,
\* together they are the blocks storage_ + i * element_size_, and allocate
\* never returns a block that is still handed out.
PoolBlockConservation ==
    LET walk == FreeListFrom(free_list_, element_count_ + 1)
        free == {walk[i] : i \in 1 .. Len(walk)}
    IN  /\ Len(walk) <= element_count_
        /\ Cardinality(free) = Len(walk)
        /\ free \cap pool_outstanding = {}
        /\ free \cup pool_outstanding = PoolBlocks
        /\ (pool_last.op = "allocate" /\ pool_last.ret # NullPtr) =>
               pool_last.ret \notin pool_last.outstanding

\* Two blocks were given back, the second while the caller still held a
\* block whose link word it had overwritten.
PoolBlockConservationWitness ==
    /\ pool_last.op = "deallocate" /\ pool_last.arg # NullPtr
    /\ pool_prev.op = "deallocate" /\ pool_prev.arg # NullPtr
    /\ pool_prev.arg > pool_last.arg
    /\ \E p \in pool_outstanding : pool_mem[p] = p
    /\ pool_mem[free_list_] # NullPtr

\* C17: an allocate that immediately follows deallocate(p) of a block p
\* returns p.
PoolLifoReuse ==
    (/\ pool_last.op = "allocate"
     /\ pool_prev.op = "deallocate" /\ pool_prev.arg # NullPtr) =>
        pool_last.ret = pool_prev.arg

\* A block given back to the exhausted pool and handed out again.
PoolLifoReuseWitness ==
    /\ pool_last.op = "allocate"
    /\ pool_prev.op = "deallocate" /\ pool_prev.arg # NullPtr
    /\ pool_prev.outstanding = PoolBlocks
    /\ element_count_ >= 2
    /\ pool_last.ret = pool_prev.arg

\* C18: every block a numa_pool hands out lies inside the backing bytes of
\* its numa_arena, and the pool has asked operator new for no buffer of
\* its own.
NumaPoolBlocksInsideArena ==
    (pool_kind = "numa_pool" /\ arena_data(arenas["a"]) # NullPtr) =>
        \A p \in pool_outstanding :
            /\ arena_data(arenas["a"]) <= p
            /\ p + element_size_ <= arenas["a"].end_
            /\ heap_count <= 1

\* C19: node() is -1 whenever the preferred node is negative or the
\* platform has no NUMA API (a build without __linux__, or numa_available()
\* reporting -1), and the inner arena is then the arena that
\* arena(size_bytes) builds.
NumaNodeUnboundWithoutApi ==
    \A o \in ArenaObjects :
        (/\ numa_env[o].numa
         /\ \/ numa_env[o].preferred_node < 0
            \/ ~numa_env[o].linux
            \/ ~numa_env[o].available) =>
            /\ node_[o] = -1
            /\ arena_last.op = "numa_ctor" =>
                  arenas[o] = arena_ctor(arena_last.ret, arena_last.bytes)

(***************************************************************************)
(* The shared-memory ring.                                                 *)
(***************************************************************************)
\* C20: constructing a shm_spsc_ring_buffer with create == false over a
\* region that already holds a valid header leaves the region's capacity,
\* head, tail and slots as they were before the constructor ran.
ShmAttachKeepsHeader ==
    (/\ shm_last.op = "ctor" /\ shm_last.ok /\ ~shm_last.create
     /\ shm_last.before.header.capacity = shm_capacity) =>
        ShmMapped(shm_last.process) = shm_last.before

\* The elements a ring holds, oldest first: the slots from head up to tail.
ShmContents(region) ==
    LET N == region.header.capacity
        head == region.header.head
        tail == region.header.tail
    IN  [i \in 1 .. ((tail + N - head) % N) |-> region.data[(head + i - 1) % N]]

\* C21: for a capacity N >= 2, under every alternation of try_push and
\* try_pop, head and tail stay in [0, N), try_push returns false iff
\* (tail+1) mod N == head, which is when N-1 elements are stored, try_pop
\* returns false iff head == tail, which is when none is stored, never more
\* than N-1 elements are stored, and try_pop returns the oldest one.
ShmRingProtocol ==
    shm_capacity >= 2 =>
        /\ \A q \in ShmProcesses :
              ShmRingOpen(q) =>
                 /\ ShmMapped(q).header.capacity = shm_capacity
                 /\ ShmMapped(q).header.head \in 0 .. (shm_capacity - 1)
                 /\ ShmMapped(q).header.tail \in 0 .. (shm_capacity - 1)
                 /\ ShmContents(ShmMapped(q)) = shm_ref
        /\ Len(shm_ref) <= shm_capacity - 1
        /\ shm_last.op = "push" =>
              /\ ~shm_last.ok <=>
                    (shm_last.before.header.tail + 1) % shm_capacity
                        = shm_last.before.header.head
              /\ ~shm_last.ok <=> Len(shm_ref_prev) = shm_capacity - 1
              /\ shm_ref = IF shm_last.ok THEN Append(shm_ref_prev, shm_last.val)
                           ELSE shm_ref_prev
        /\ shm_last.op = "pop" =>
              /\ ~shm_last.ok <=>
                    shm_last.before.header.head = shm_last.before.header.tail
              /\ ~shm_last.ok <=> shm_ref_prev = <<>>
              /\ shm_last.ok =>
                    /\ shm_last.val = Head(shm_ref_prev)
                    /\ shm_ref = Tail(shm_ref_prev)

\* A try_push found the ring full after the indices had gone round it.
ShmRingProtocolWitness ==
    /\ shm_capacity >= 2
    /\ shm_last.op = "push" /\ ~shm_last.ok
    /\ shm_last.before.header.head > 0
    /\ shm_last.before.header.tail < shm_last.before.header.head

(***************************************************************************)
(* The queues, continued.                                                  *)
(***************************************************************************)
IsPowerOfTwo(n) == \E k \in 0 .. SizeBits : n = 2 ^ k

Max(a, b) == IF a >= b THEN a ELSE b

\* n is the smallest power of two that is at least m.
SmallestPowerOfTwoAtLeast(n, m) ==
    /\ IsPowerOfTwo(n)
    /\ n >= m
    /\ \A k \in 0 .. SizeBits : 2 ^ k >= m => n <= 2 ^ k

\* C22: for every requested capacity C, the SPSC queue's storage_capacity
\* is the smallest power of two >= max(C+1, 2) and its capacity() is
\* storage_capacity - 1 >= max(C, 1); the MPMC queue's capacity() is the
\* smallest power of two >= max(C, 2).
CapacityRounding ==
    /\ SmallestPowerOfTwoAtLeast(storage_capacity_, Max(ctor_capacity.spsc + 1, 2))
    /\ spsc_capacity = storage_capacity_ - 1
    /\ spsc_capacity >= Max(ctor_capacity.spsc, 1)
    /\ SmallestPowerOfTwoAtLeast(mpmc_capacity_, Max(ctor_capacity.mpmc, 2))

\* C23: after any sequence of pushes and pops, the SPSC queue's try_pop
\* returns false, and empty() returns true, if and only if the queue holds
\* no unconsumed element, and a try_pop that returns false leaves out, head,
\* tail and every slot unchanged.
SpscPopFailsIffEmpty ==
    [][/\ SeqSpscPop =>
             /\ ~seq_last'.ok <=> seq_ref = <<>>
             /\ ~seq_last'.ok => UNCHANGED <<c_out, spsc_head_, spsc_tail_, storage_>>
       /\ SeqSpscEmpty => (seq_obs'.res <=> seq_ref = <<>>)]_vars

Min(a, b) == IF a <= b THEN a ELSE b

\* The elements the SPSC queue holds, oldest first: the slots from head up
\* to tail.
SpscContents ==
    [i \in 1 .. BitAnd(Wrap(spsc_tail_ - spsc_head_), spsc_mask_) |->
        storage_[spsc_element_at(Wrap(spsc_head_ + i - 1))]]

\* The elements the MPMC queue holds, oldest first.
MpmcContents ==
    [i \in 1 .. Wrap(mpmc_tail_ - mpmc_head_) |->
        cells_[mpmc_cell(Wrap(mpmc_head_ + i - 1))].storage]

SeqContents == IF seq_sut = "spsc" THEN SpscContents ELSE MpmcContents

SeqCapacity == IF seq_sut = "spsc" THEN spsc_capacity ELSE mpmc_capacity_

\* C24: on both queues try_push_batch(src, n) returns k in [0, n] with
\* k == min(n, free slots), and the queue then holds what it held followed by
\* src[0..k) and nothing else; try_pop_batch(dst, n) returns k in [0, n],
\* dst[0..k) holds the k oldest elements in FIFO order, dst[k..n) is
\* untouched and the queue holds the remaining elements.
BatchApi ==
    LET b == batch_last
    IN  /\ b.op = "push_batch" =>
              /\ b.ret \in 0 .. b.count
              /\ b.ret = Min(b.count, SeqCapacity - Len(b.ref))
              /\ SeqContents = b.ref \o SubSeq(b.src, 1, b.ret)
        /\ b.op = "pop_batch" =>
              /\ b.ret \in 0 .. b.count
              /\ b.ret <= Len(b.ref)
              /\ SubSeq(b.dst, 1, b.ret) = SubSeq(b.ref, 1, b.ret)
              /\ \A i \in (b.ret + 1) .. b.count : b.dst[i] = NoValue
              /\ SeqContents = SubSeq(b.ref, b.ret + 1, Len(b.ref))

MpmcCellEmptyFor(c, i) ==
    c[i].sequence >= i /\ (c[i].sequence - i) % mpmc_capacity_ = 0

MpmcCellFullIn(c, i) ==
    c[i].sequence >= i + 1 /\ (c[i].sequence - i - 1) % mpmc_capacity_ = 0

MpmcSequenceForm(c) ==
    \A i \in DOMAIN c : MpmcCellEmptyFor(c, i) \/ MpmcCellFullIn(c, i)

\* A thread that has claimed an index holds the cell in the cycle of that
\* index: a producer until it publishes, a consumer until it releases.
MpmcClaimInCycle ==
    \A t \in MpmcThreads :
       /\ m_pc[t] \in {"p_construct", "p_publish"} =>
             cells_[mpmc_cell(m_idx[t])].sequence = m_idx[t]
       /\ m_pc[t] \in {"c_move", "c_release"} =>
             cells_[mpmc_cell(m_idx[t])].sequence = Wrap(m_idx[t] + 1)

MpmcIndexDistance ==
    /\ mpmc_head_ <= mpmc_tail_
    /\ Wrap(mpmc_tail_ - mpmc_head_) <= mpmc_capacity_

\* tail is a whole ring ahead of a head that has moved, while a producer
\* and a consumer are inside their calls.
MpmcIndexDistanceWitness ==
    /\ mpmc_head_ > 0
    /\ mpmc_tail_ - mpmc_head_ = mpmc_capacity_
    /\ \E t \in Producers : m_pc[t] # "idle"
    /\ \E t \in Consumers : m_pc[t] # "idle"

\* The threads that have claimed cell i and not yet published or released
\* it: only these touch its storage.
MpmcHolders(i) ==
    {t \in MpmcThreads :
        /\ m_pc[t] \in {"p_construct", "p_publish", "c_move", "c_release"}
        /\ mpmc_cell(m_idx[t]) = i}

MpmcConstructed(i) == cells_[i].storage # NoValue

\* Cell i has been published and no consumer has claimed it since.
MpmcPublishedUnclaimed(i) ==
    /\ MpmcCellFullIn(cells_, i)
    /\ \A t \in MpmcHolders(i) : m_pc[t] \notin {"c_move", "c_release"}

\* At most one thread holds a cell, and a consumer moves out of a cell that
\* holds a constructed element and is handed one.
MpmcExclusiveAccess ==
    /\ \A i \in DOMAIN cells_ : Cardinality(MpmcHolders(i)) <= 1
    /\ \A t \in Consumers :
          m_pc[t] = "c_move" => MpmcConstructed(mpmc_cell(m_idx[t]))
    /\ \A pair \in m_taken : pair[2] # NoValue

\* C28 as stated: a cell's storage is accessed by at most one thread at a
\* time, and a cell holds a constructed element exactly from its producer's
\* publishing store of sequence until its consumer's claim.
MpmcConstructedFromPublishToClaim ==
    /\ MpmcExclusiveAccess
    /\ \A i \in DOMAIN cells_ : MpmcConstructed(i) <=> MpmcPublishedUnclaimed(i)

\* C28 amended: a cell's storage is accessed by at most one thread at a
\* time, and a cell holds a constructed element exactly from its producer's
\* construction, which precedes the publishing store, until its consumer's
\* move-out, which follows the claim; so it holds one whenever it is
\* published and unclaimed, and no consumer reads an unconstructed or
\* destroyed element.
MpmcSlotOwnership ==
    /\ MpmcExclusiveAccess
    /\ \A i \in DOMAIN cells_ :
          /\ MpmcPublishedUnclaimed(i) => MpmcConstructed(i)
          /\ MpmcConstructed(i) <=>
                \/ MpmcPublishedUnclaimed(i)
                \/ \E t \in MpmcHolders(i) : m_pc[t] \in {"p_publish", "c_move"}

\* A producer has constructed an element it has not published while a
\* consumer has claimed another cell it has not moved out of, on a ring
\* that has gone round.
MpmcSlotOwnershipWitness ==
    /\ \E t \in Producers : m_pc[t] = "p_publish" /\ m_idx[t] >= mpmc_capacity_
    /\ \E t \in Consumers : m_pc[t] = "c_move"

\* The shared index a thread's call works on.
MpmcIndexOf(t) == IF t \in Producers THEN mpmc_tail_ ELSE mpmc_head_

\* Thread t goes round the retry loop of its call.
MpmcRetries(t) ==
    /\ m_pc[t] \notin {"p_reload", "c_reload"}
    /\ m_pc'[t] \in {"p_reload", "c_reload"}

\* Thread t's call returns.
MpmcReturns(t) == m_pc[t] # "idle" /\ m_pc'[t] = "idle"

\* Some call completes infinitely often.
MpmcLockFree == []<><<\E t \in MpmcThreads : MpmcReturns(t)>>_vars

MpmcEmplaceDiff(t) ==
    mpmc_push_diff(cells_[mpmc_cell(m_idx[t])].sequence, m_idx[t])

MpmcPopDiff(t) ==
    mpmc_pop_diff(cells_[mpmc_cell(m_idx[t])].sequence, m_idx[t])

\* Thread t's call returns false from its diff < 0 branch.
MpmcReturnsFalse(t) ==
    /\ m_pc[t] \in {"p_load_seq", "c_load_seq"}
    /\ m_pc'[t] = "idle"

MpmcApproximateSizeInRange ==
    size_obs.pc = "returned" => size_obs.res \in 0 .. mpmc_capacity_

\* A stored index that stays or goes up by one, with no reduction.
FreeRunningStep(old, new) == new = old \/ new = Wrap(old + 1)

\* C32: in both queues the stored head and tail only ever increase by one
\* per successful operation and are never reduced modulo the slot count.
RingIndicesFreeRunning ==
    [][/\ FreeRunningStep(spsc_head_, spsc_head_')
       /\ FreeRunningStep(spsc_tail_, spsc_tail_')
       /\ FreeRunningStep(mpmc_head_, mpmc_head_')
       /\ FreeRunningStep(mpmc_tail_, mpmc_tail_')]_vars

(***************************************************************************)
(* The spinlock, continued.                                                *)
(***************************************************************************)
\* Thread t is inside lock().
InLock(t) == l_pc[t] \in {"test", "cas"}

\* C33: inside lock() the backoff starts at 1, is only ever doubled, and in
\* every state satisfies 1 <= backoff <= 2^16.
LockBackoffBound ==
    /\ [](\A t \in LockThreads :
            l_backoff[t] >= 1 /\ l_backoff[t] <= max_backoff_)
    /\ [][\A t \in LockThreads :
             /\ (~InLock(t) /\ InLock(t)') => l_backoff'[t] = 1
             /\ (InLock(t) /\ InLock(t)') =>
                   l_backoff'[t] \in {l_backoff[t], 2 * l_backoff[t]}]_vars

\* A thread waits in the test loop with the backoff at its upper limit.
LockBackoffBoundWitness ==
    \E t \in LockThreads :
       l_pc[t] = "test" /\ flag_ /\ l_backoff[t] = max_backoff_

\* C34: when the compare-exchange in lock() fails and control returns to the
\* test loop, the backoff is reset to its initial value.
LockBackoffResetOnFailure ==
    [][\A t \in LockThreads :
          (l_pc[t] = "cas" /\ l_pc'[t] = "test") => l_backoff'[t] = 1]_vars

\* Some thread has returned from lock() and holds the lock.
LockAcquired == \E t \in LockThreads : l_pc[t] = "cs_read"

ShmOwners == {q \in ShmProcesses : ShmRingOpen(q) /\ shm_procs[q].owner_}

\* C36: at most one shm_region over the name is the owner, and a process that
\* passes create == true while the region exists does not become an owner.
ShmSingleOwner ==
    /\ Cardinality(ShmOwners) <= 1
    /\ (/\ shm_last.op = "ctor" /\ shm_last.ok /\ shm_last.create
        /\ shm_last.before # NoRegion)
          => ~shm_procs[shm_last.process].owner_

\* C37: allocate returns null for every bytes larger than the space that
\* remains after alignment, however large, and never returns a non-null
\* pointer whose range leaves [begin, end].
ArenaHugeSizeRejected ==
    (arena_last.op = "allocate" /\ arena_last.before.begin_ # NullPtr) =>
        LET b == arena_last.before
            aligned == align_ptr(b.ptr_, arena_last.alignment)
        IN  /\ (aligned <= b.end_ /\ arena_last.bytes > b.end_ - aligned) =>
                   arena_last.ret = NullPtr
            /\ arena_last.ret # NullPtr =>
                   /\ b.begin_ <= arena_last.ret
                   /\ arena_last.ret + arena_last.bytes <= b.end_

\* C40: on an arena that holds a buffer, allocate(0, a) returns the bump
\* pointer rounded up to a (non-null, a-aligned, in [begin, end]) when that
\* address does not exceed end and null otherwise; it advances used() by
\* the alignment padding only, and a second allocate(0, a) returns the same
\* address.
ArenaZeroSizeAllocation ==
    (/\ arena_last.op = "allocate" /\ arena_last.bytes = 0
     /\ arena_last.before.begin_ # NullPtr) =>
        LET b == arena_last.before
            a == arenas[arena_last.obj]
            aligned == align_ptr(b.ptr_, arena_last.alignment)
        IN  IF aligned <= b.end_
            THEN /\ arena_last.ret = aligned
                 /\ arena_last.ret # NullPtr
                 /\ arena_last.ret % arena_last.alignment = 0
                 /\ b.begin_ <= arena_last.ret /\ arena_last.ret <= b.end_
                 /\ arena_used(a) = arena_used(b) + (aligned - b.ptr_)
                 /\ \A wrapped \in BOOLEAN :
                       arena_allocate(a, 0, arena_last.alignment, wrapped).ret
                          = arena_last.ret
            ELSE /\ arena_last.ret = NullPtr
                 /\ a = b

(***************************************************************************)
(* The queues: misuse of the slot interface and visibility.                *)
(***************************************************************************)
\* C39: commit_producer_slot() and release_consumer_slot() advance their
\* index by one slot without a fullness or emptiness check: a commit after
\* try_acquire_producer_slot() returned null on a full queue makes tail equal
\* head and the queue report empty, and a release on an empty queue makes
\* the queue report elements (head differs from tail) although no push was
\* made in between.
SpscCommitReleaseUnconditional ==
    /\ slot_last.op = "commit_unacquired" =>
          /\ spsc_distance(slot_last.before.tail, slot_last.before.head)
                = spsc_capacity
          /\ spsc_tail_ = spsc_next(slot_last.before.tail)
          /\ spsc_head_ = slot_last.before.head
          /\ storage_ = slot_last.before.storage
          /\ spsc_tail_ = spsc_head_
          /\ spsc_empty
    /\ slot_last.op = "release_unacquired" =>
          /\ slot_last.before.head = slot_last.before.tail
          /\ spsc_head_ = spsc_next(slot_last.before.head)
          /\ spsc_tail_ = slot_last.before.tail
          /\ storage_ = slot_last.before.storage
          /\ ~spsc_empty
          /\ spsc_distance(spsc_tail_, spsc_head_) > 0

\* A commit was made on a queue that holds capacity() elements, three or
\* more.
SpscCommitReleaseUnconditionalWitness ==
    /\ slot_last.op = "commit_unacquired"
    /\ Len(seq_ref) = spsc_capacity
    /\ spsc_capacity >= 3

\* The values whose try_push has returned true and which no consumer has
\* claimed.
MpmcUnpopped == {v \in m_pushed : \A p \in m_taken : p[2] # v}

\* C38: when a try_push has returned true and its value has not been popped,
\* a try_pop that starts afterwards returns true, also while another
\* producer holds an earlier tail index it has not published; here the
\* try_pop starts with no consumer inside a call and runs without a step of
\* another thread in between.
MpmcCompletedPushVisible ==
    (MpmcUnpopped # {} /\ \A t \in Consumers : m_pc[t] = "idle") =>
        mpmc_try_pop(MpmcQueue).ret = "true"

=============================================================================
